---- MODULE Spec2Model ----
(***************************************************************************)
(* A model of sunless.py, the reader of the Sunless Skies data files: the  *)
(* byte cursor (_Reader), the field decoders that _Codegen emits, the      *)
(* per-class __init__ that generate_code builds from a layout, and the     *)
(* dataset loaders load_data / load_all.                                   *)
(*                                                                         *)
(* Python values are tagged records: [t |-> "None"], [t |-> "int", v],     *)
(* [t |-> "bool", v], [t |-> "bigint", v] (an unbounded int, as limbs),    *)
(* [t |-> "float", ...], [t |-> "str", v] (code points), [t |-> "enum",    *)
(* cls, v], [t |-> "obj", cls, f], [t |-> "list", v], [t |-> "tuple", v].  *)
(* A decode step yields [val, pos, err]: the value, the cursor after it,   *)
(* and the Python exception raised ("none" when it returned). The         *)
(* parameter `mem` of a decoder says whether the allocator grants the      *)
(* step a buffer of 2^28 entries or more, should it ask for one.           *)
(***************************************************************************)
EXTENDS Integers, Sequences, FiniteSets, TLC

VARIABLES
    data,       \* the bytes of the stream under the cursor
    pos,        \* bytes consumed so far (what tell_fun reports)
    op,         \* the decode operation that ran last ("" before the first)
    arg,        \* its class argument ("" when it takes none)
    start,      \* the cursor before that operation
    val,        \* the value it produced
    err,        \* the exception it raised, "none" when it returned
    files,      \* the data directory: dataset name -> file content or "missing"
    loaded,     \* load_all: dataset name -> decoded value, for those loaded
    loadErr,    \* load_all: <<dataset name, exception>> that ended it, or <<>>
    loadPc,     \* load_all: "idle" before the call, "returned" or "raised" after
    source,     \* the file a _Reader was last made on: "unopened", "open", "closed"
    frame       \* the generated __init__ in progress: class, next field, values

vars == <<data, pos, op, arg, start, val, err, files, loaded, loadErr, loadPc,
          source, frame>>

(***************************************************************************)
(* Bounds of the model.                                                    *)
(***************************************************************************)
MaxLen == 5        \* bytes in an arbitrary stream
MaxElems == 2      \* elements in an array stream
MaxCont == 6       \* bytes in a stream of continuation bytes
MaxSmall == 40     \* the integers 0..MaxSmall are among those encoded as varints
MaxZeros == 8      \* zero bytes after the two flags of an object stream
MaxBad == 2        \* dataset files that are missing or corrupt
MaxSwap == 2       \* leading name bytes of a header that are varied
MaxLoad == 2       \* elements in the array of a dataset file
MaxText == 5       \* bytes in the text of a backers file
MaxCut == 12       \* longest prefix of a record that is tried cut short

Min(a, b) == IF a < b THEN a ELSE b
Zeros(n) == [i \in 1..n |-> 0]

None == [t |-> "None"]
IntV(n) == [t |-> "int", v |-> n]
BoolV(b) == [t |-> "bool", v |-> b]

R(v, p, e) == [val |-> v, pos |-> p, err |-> e]

(***************************************************************************)
(* _Reader.read_fun: BufferedReader.read(n) returns the next n bytes, or   *)
(* the fewer that remain before end of file; it never raises on a short    *)
(* read.                                                                   *)
(***************************************************************************)
read_fun(d, p, n) ==
    [bytes |-> SubSeq(d, p + 1, Min(p + n, Len(d))), pos |-> Min(p + n, Len(d))]

(***************************************************************************)
(* int.from_bytes(bs, 'little', signed=True) for the 0 to 4 bytes a read   *)
(* returned: two's complement over exactly the bytes given (so a short    *)
(* read is a narrower integer, and no bytes at all is 0).                  *)
(***************************************************************************)
RECURSIVE from_bytes_signed(_)
from_bytes_signed(bs) ==
    IF Len(bs) = 0 THEN 0
    ELSE IF Len(bs) = 1 THEN (IF bs[1] >= 128 THEN bs[1] - 256 ELSE bs[1])
    ELSE bs[1] + 256 * from_bytes_signed(Tail(bs))

(* read_byte: read_fun(1)[0]; indexing the empty bytes raises IndexError *)
read_byte(d, p) ==
    LET r == read_fun(d, p, 1)
    IN  IF Len(r.bytes) = 0 THEN R(None, r.pos, "IndexError")
        ELSE R(IntV(r.bytes[1]), r.pos, "none")

(* read_bool: bool(read_byte) *)
read_bool(d, p) ==
    LET b == read_byte(d, p)
    IN  IF b.err # "none" THEN b ELSE R(BoolV(b.val.v # 0), b.pos, "none")

(* read_int32: int.from_bytes(read_fun(4), 'little', signed=True) *)
read_int32(d, p) ==
    LET r == read_fun(d, p, 4)
    IN  R(IntV(from_bytes_signed(r.bytes)), r.pos, "none")

(* a variant that evaluates the value before the condition *)
read_optional_int32_eager(d, p) ==
    LET i == read_int32(d, p)
        b == read_byte(d, i.pos)
    IN  IF b.err # "none" THEN b
        ELSE IF b.val.v # 0 THEN R(i.val, b.pos, "none")
        ELSE R(None, b.pos, "none")

(* read_optional_int32: <int32> if <byte> else None; the condition runs first *)
read_optional_int32(d, p) ==
    LET b == read_byte(d, p)
    IN  IF b.err # "none" THEN b
        ELSE IF b.val.v # 0 THEN read_int32(d, b.pos)
        ELSE R(None, b.pos, "none")

(***************************************************************************)
(* read_optional_int64: the returned snippet is not an f-string, so the    *)
(* generated line is                                                       *)
(*     self.x = unexpected_int64 if {self.read_byte()} else None           *)
(* whose condition is a set display that calls self.read_byte() on the     *)
(* object under construction, which has no such attribute: AttributeError  *)
(* before any byte is read.                                                *)
(***************************************************************************)
read_optional_int64(d, p) ==
    R(None, p, "AttributeError")

(***************************************************************************)
(* read_float: unpack('f', read_fun(4))[0]. struct.error unless 4 bytes    *)
(* came back. The value is kept as the IEEE-754 single's fields (bytes in  *)
(* little-endian order: sign and exponent in the last).                    *)
(***************************************************************************)
read_float(d, p) ==
    LET r == read_fun(d, p, 4)
        b == r.bytes
    IN  IF Len(b) # 4 THEN R(None, r.pos, "struct.error")
        ELSE R([t |-> "float",
                sign |-> b[4] \div 128,
                exponent |-> (b[4] % 128) * 2 + (b[3] \div 128),
                fraction |-> (b[3] % 128) * 65536 + b[2] * 256 + b[1]],
               r.pos, "none")

(***************************************************************************)
(* Python ints are unbounded. A varint's value is kept as little-endian    *)
(* limbs of 28 bits (four 7-bit groups each), without trailing zero limbs. *)
(***************************************************************************)
LimbBits == 7 * 4
LimbBase == 2 ^ LimbBits

BigV(limbs) == [t |-> "bigint", v |-> limbs]

(* acc | (g << shift), for g < 128 and shift a multiple of 7 at or above    *)
(* every set bit of acc: the group lands in bits of one limb that are 0    *)
BigOrShifted(acc, g, shift) ==
    IF g = 0 THEN acc
    ELSE LET i == (shift \div LimbBits) + 1
             padded == IF i > Len(acc)
                       THEN acc \o [j \in 1..(i - Len(acc)) |-> 0]
                       ELSE acc
         IN  [padded EXCEPT ![i] = @ + g * (2 ^ (shift % LimbBits))]

(* whether the unbounded int is below 2^28, and then its value *)
BigIsSmall(limbs) == Len(limbs) <= 1
BigSmall(limbs) == IF Len(limbs) = 0 THEN 0 ELSE limbs[1]
(* whether it is 2^63 or more: limb 3 holds bits 56..83 *)
BigOverIndex(limbs) == Len(limbs) > 3 \/ (Len(limbs) = 3 /\ limbs[3] >= 128)

(* a variant that or-s in the whole byte, continuation bit included *)
RECURSIVE varint_loop_unmasked(_, _, _, _)
varint_loop_unmasked(d, p, shift, acc) ==
    LET r == read_fun(d, p, 1)
    IN  IF Len(r.bytes) = 0 THEN R(None, r.pos, "IndexError")
        ELSE LET byte == r.bytes[1]
                 acc2 == BigOrShifted(acc, byte, shift)
             IN  IF byte \div 128 = 0 THEN R(BigV(acc2), r.pos, "none")
                 ELSE varint_loop_unmasked(d, r.pos, shift + 7, acc2)

(***************************************************************************)
(* _read_varint_real: the loop reads one byte at a time, or-ing its low 7  *)
(* bits in at the current shift, until a byte without the high bit. At end *)
(* of file read_fun(1) is empty and [0] raises IndexError.                 *)
(***************************************************************************)
RECURSIVE varint_loop(_, _, _, _)
varint_loop(d, p, shift, acc) ==
    LET r == read_fun(d, p, 1)
    IN  IF Len(r.bytes) = 0 THEN R(None, r.pos, "IndexError")
        ELSE LET byte == r.bytes[1]
                 acc2 == BigOrShifted(acc, byte % 128, shift)
             IN  IF byte \div 128 = 0 THEN R(BigV(acc2), r.pos, "none")
                 ELSE varint_loop(d, r.pos, shift + 7, acc2)

read_varint(d, p) == varint_loop(d, p, 0, <<>>)

(***************************************************************************)
(* bytes.decode(): strict UTF-8 to code points; "bad" when the bytes are   *)
(* not valid UTF-8 (UnicodeDecodeError).                                   *)
(***************************************************************************)
IsCont(b) == b >= 128 /\ b <= 191

RECURSIVE utf8_decode(_, _, _)
utf8_decode(bs, i, acc) ==
    IF i > Len(bs) THEN [ok |-> TRUE, cps |-> acc]
    ELSE LET b == bs[i]
             have(n) == i + n <= Len(bs)
             bad == [ok |-> FALSE, cps |-> acc]
         IN  IF b < 128 THEN utf8_decode(bs, i + 1, Append(acc, b))
             ELSE IF b >= 194 /\ b <= 223 THEN
                  IF have(1) /\ IsCont(bs[i+1])
                  THEN utf8_decode(bs, i + 2, Append(acc, (b - 192) * 64 + (bs[i+1] - 128)))
                  ELSE bad
             ELSE IF b >= 224 /\ b <= 239 THEN
                  IF have(2) /\ IsCont(bs[i+1]) /\ IsCont(bs[i+2])
                     /\ (b = 224 => bs[i+1] >= 160)
                     /\ (b = 237 => bs[i+1] <= 159)
                  THEN utf8_decode(bs, i + 3,
                           Append(acc, (b - 224) * 4096 + (bs[i+1] - 128) * 64 + (bs[i+2] - 128)))
                  ELSE bad
             ELSE IF b >= 240 /\ b <= 244 THEN
                  IF have(3) /\ IsCont(bs[i+1]) /\ IsCont(bs[i+2]) /\ IsCont(bs[i+3])
                     /\ (b = 240 => bs[i+1] >= 144)
                     /\ (b = 244 => bs[i+1] <= 143)
                  THEN utf8_decode(bs, i + 4,
                           Append(acc, (b - 240) * 262144 + (bs[i+1] - 128) * 4096
                                       + (bs[i+2] - 128) * 64 + (bs[i+3] - 128)))
                  ELSE bad
             ELSE bad

(***************************************************************************)
(* read_base_string: read_fun(<varint>).decode(). The varint runs first.   *)
(* read(n) with n >= 2^63 raises OverflowError; a buffer of 2^28 bytes or  *)
(* more is allocated up front, which the allocator grants or not           *)
(* (MemoryError); otherwise the bytes that remain, up to n, come back.     *)
(***************************************************************************)
read_base_string(mem, d, p) ==
    LET n == read_varint(d, p)
    IN  IF n.err # "none" THEN n
        ELSE IF BigOverIndex(n.val.v) THEN R(None, n.pos, "OverflowError")
        ELSE IF ~BigIsSmall(n.val.v) /\ ~mem THEN R(None, n.pos, "MemoryError")
        ELSE LET r == IF BigIsSmall(n.val.v)
                      THEN read_fun(d, n.pos, BigSmall(n.val.v))
                      ELSE read_fun(d, n.pos, Len(d))
                 s == utf8_decode(r.bytes, 1, <<>>)
             IN  IF s.ok THEN R([t |-> "str", v |-> s.cps], r.pos, "none")
                 ELSE R(None, r.pos, "UnicodeDecodeError")

(* read_string: <base string> if <byte> else None *)
read_string(mem, d, p) ==
    LET b == read_byte(d, p)
    IN  IF b.err # "none" THEN b
        ELSE IF b.val.v # 0 THEN read_base_string(mem, d, b.pos)
        ELSE R(None, b.pos, "none")

(* read_datetime: the constant 0, nothing is read *)
read_datetime(d, p) == R(IntV(0), p, "none")

(* read_optional_datetime: 0 if <byte> else None *)
read_optional_datetime(d, p) ==
    LET b == read_byte(d, p)
    IN  IF b.err # "none" THEN b
        ELSE IF b.val.v # 0 THEN R(IntV(0), b.pos, "none")
        ELSE R(None, b.pos, "none")

(* a variant that assigns the 0 and does not raise *)
read_bad_type_quiet(d, p) == R(IntV(0), p, "none")

(* read_bad_type: self.id = 0; raise ValueError('Tried to parse unexpected type') *)
read_bad_type(d, p) == R(None, p, "ValueError")

(* class Area: _layout, one <<name, method, class argument>> per line *)
Area_layout ==
    << <<"description", "string", "">>,
       <<"image_name", "string", "">>,
       <<"world", "object", "World">>,
       <<"market_access_permitted", "bool", "">>,
       <<"move_message", "string", "">>,
       <<"hide_name", "bool", "">>,
       <<"random_postcard", "bool", "">>,
       <<"map_x", "int32", "">>,
       <<"map_y", "int32", "">>,
       <<"unlocks_with_quality", "object", "Quality">>,
       <<"show_ops", "bool", "">>,
       <<"premium_sub_required", "bool", "">>,
       <<"name", "string", "">>,
       <<"id", "int32", "">> >>

(* class AspectQPossession: _layout, one <<name, method, class argument>> per line *)
AspectQPossession_layout ==
    << <<"quality", "object", "Quality">>,
       <<"xp", "int32", "">>,
       <<"effective_level_modifier", "int32", "">>,
       <<"target_quality", "object", "Quality">>,
       <<"target_level", "optional_int32", "">>,
       <<"completion_message", "string", "">>,
       <<"level", "int32", "">>,
       <<"associated_quality", "object", "Quality">>,
       <<"id", "int32", "">> >>

(* class Availability: _layout, one <<name, method, class argument>> per line *)
Availability_layout ==
    << <<"quality", "object", "Quality">>,
       <<"cost", "int32", "">>,
       <<"sell_price", "int32", "">>,
       <<"in_shop", "object", "Shop">>,
       <<"purchase_quality", "object", "Quality">>,
       <<"buy_message", "string", "">>,
       <<"sell_message", "string", "">>,
       <<"sale_description", "string", "">>,
       <<"id", "int32", "">> >>

(* class Bargain: _layout, one <<name, method, class argument>> per line *)
Bargain_layout ==
    << <<"world", "object", "World">>,
       <<"tags", "string", "">>,
       <<"description", "string", "">>,
       <<"offer", "object", "Quality">>,
       <<"stock", "int32", "">>,
       <<"price", "string", "">>,
       <<"qualities_required", "array", "BargainQRequirement">>,
       <<"teaser", "string", "">>,
       <<"name", "string", "">>,
       <<"id", "int32", "">> >>

(* class BargainQRequirement: _layout, one <<name, method, class argument>> per line *)
BargainQRequirement_layout ==
    << <<"custom_locked_message", "string", "">>,
       <<"custom_unlocked_message", "string", "">>,
       <<"min_level", "optional_int32", "">>,
       <<"max_level", "optional_int32", "">>,
       <<"min_advanced", "string", "">>,
       <<"max_advanced", "string", "">>,
       <<"associated_quality", "object", "Quality">>,
       <<"id", "int32", "">> >>

(* class Branch: _layout, one <<name, method, class argument>> per line *)
Branch_layout ==
    << <<"success_event", "object", "Event">>,
       <<"default_event", "object", "Event">>,
       <<"rare_default_event", "object", "Event">>,
       <<"rare_default_event_chance", "int32", "">>,
       <<"rare_success_event", "object", "Event">>,
       <<"rare_success_event_chance", "int32", "">>,
       <<"parent_event", "object", "Event">>,
       <<"qualities_required", "array", "BranchQRequirement">>,
       <<"image", "string", "">>,
       <<"description", "string", "">>,
       <<"owner_name", "string", "">>,
       <<"date_time_created", "datetime", "">>,
       <<"currency_cost", "int32", "">>,
       <<"archived", "bool", "">>,
       <<"rename_quality_category", "optional_enum", "Category">>,
       <<"button_text", "string", "">>,
       <<"ordering", "int32", "">>,
       <<"act", "object", "Stub">>,
       <<"action_cost", "int32", "">>,
       <<"name", "string", "">>,
       <<"id", "int32", "">> >>

(* class BranchQRequirement: _layout, one <<name, method, class argument>> per line *)
BranchQRequirement_layout ==
    << <<"difficulty_level", "optional_int32", "">>,
       <<"difficulty_advanced", "string", "">>,
       <<"visible_when_requirement_failed", "bool", "">>,
       <<"custom_locked_message", "string", "">>,
       <<"custom_unlocked_message", "string", "">>,
       <<"is_cost_requirement", "bool", "">>,
       <<"min_level", "optional_int32", "">>,
       <<"max_level", "optional_int32", "">>,
       <<"min_advanced", "string", "">>,
       <<"max_advanced", "string", "">>,
       <<"associated_quality", "object", "Quality">>,
       <<"id", "int32", "">> >>

(* class Completion: _layout, one <<name, method, class argument>> per line *)
Completion_layout ==
    << <<"prospect", "object", "Prospect">>,
       <<"description", "string", "">>,
       <<"satisfaction_message", "string", "">>,
       <<"qualities_affected", "array", "CompletionQEffect">>,
       <<"qualities_required", "array", "CompletionQRequirement">>,
       <<"id", "int32", "">> >>

(* class CompletionQEffect: _layout, one <<name, method, class argument>> per line *)
CompletionQEffect_layout ==
    << <<"force_equip", "bool", "">>,
       <<"only_if_no_more_than_advanced", "string", "">>,
       <<"only_if_at_least", "optional_int32", "">>,
       <<"only_if_no_more_than", "optional_int32", "">>,
       <<"set_to_exactly_advanced", "string", "">>,
       <<"change_by_advanced", "string", "">>,
       <<"only_if_at_least_advanced", "string", "">>,
       <<"set_to_exactly", "optional_int32", "">>,
       <<"target_quality", "object", "Quality">>,
       <<"target_level", "optional_int32", "">>,
       <<"completion_message", "string", "">>,
       <<"level", "int32", "">>,
       <<"associated_quality", "object", "Quality">>,
       <<"id", "int32", "">> >>

(* class CompletionQRequirement: _layout, one <<name, method, class argument>> per line *)
CompletionQRequirement_layout ==
    << <<"min_level", "optional_int32", "">>,
       <<"max_level", "optional_int32", "">>,
       <<"min_advanced", "string", "">>,
       <<"max_advanced", "string", "">>,
       <<"associated_quality", "object", "Quality">>,
       <<"id", "int32", "">> >>

(* class Deck: _layout, one <<name, method, class argument>> per line *)
Deck_layout ==
    << <<"world", "object", "World">>,
       <<"name", "string", "">>,
       <<"image_name", "string", "">>,
       <<"ordering", "int32", "">>,
       <<"description", "string", "">>,
       <<"availability", "enum", "Frequency">>,
       <<"draw_size", "int32", "">>,
       <<"max_cards", "int32", "">>,
       <<"id", "int32", "">> >>

(* class Domicile: _layout, one <<name, method, class argument>> per line *)
Domicile_layout ==
    << <<"name", "string", "">>,
       <<"description", "string", "">>,
       <<"image_name", "string", "">>,
       <<"max_hand_size", "int32", "">>,
       <<"defence_bonus", "int32", "">>,
       <<"world", "object", "World">>,
       <<"id", "int32", "">> >>

(* class Event: _layout, one <<name, method, class argument>> per line *)
Event_layout ==
    << <<"child_branches", "array", "Branch">>,
       <<"parent_branch", "object", "Branch">>,
       <<"qualities_affected", "array", "EventQEffect">>,
       <<"qualities_required", "array", "EventQRequirement">>,
       <<"image", "string", "">>,
       <<"second_image", "string", "">>,
       <<"description", "string", "">>,
       <<"tag", "string", "">>,
       <<"exotic_effects", "string", "">>,
       <<"note", "string", "">>,
       <<"challenge_level", "int32", "">>,
       <<"uncleared_edit_at", "optional_datetime", "">>,
       <<"last_edited_by", "object", "User">>,
       <<"ordering", "float", "">>,
       <<"show_as_message", "bool", "">>,
       <<"living_story", "object", "Stub">>,
       <<"link_to_event", "object", "Event">>,
       <<"deck", "object", "Deck">>,
       <<"category", "enum", "EventCategory">>,
       <<"limited_to_area", "object", "Area">>,
       <<"world", "object", "World">>,
       <<"transient", "bool", "">>,
       <<"stickiness", "int32", "">>,
       <<"move_to_area_id", "int32", "">>,
       <<"move_to_area", "object", "Area">>,
       <<"move_to_domicile", "object", "Stub">>,
       <<"switch_to_setting", "object", "Setting">>,
       <<"fate_points_change", "int32", "">>,
       <<"booty_value", "int32", "">>,
       <<"log_in_journal_against_quality", "object", "Quality">>,
       <<"setting", "object", "Setting">>,
       <<"urgency", "enum", "Urgency">>,
       <<"teaser", "string", "">>,
       <<"owner_name", "string", "">>,
       <<"date_time_created", "datetime", "">>,
       <<"distribution", "int32", "">>,
       <<"autofire", "bool", "">>,
       <<"can_go_back", "bool", "">>,
       <<"name", "string", "">>,
       <<"id", "int32", "">> >>

(* class EventQEffect: _layout, one <<name, method, class argument>> per line *)
EventQEffect_layout ==
    << <<"priority", "optional_int32", "">>,
       <<"force_equip", "bool", "">>,
       <<"only_if_no_more_than_advanced", "string", "">>,
       <<"only_if_at_least", "optional_int32", "">>,
       <<"only_if_no_more_than", "optional_int32", "">>,
       <<"set_to_exactly_advanced", "string", "">>,
       <<"change_by_advanced", "string", "">>,
       <<"only_if_at_least_advanced", "string", "">>,
       <<"set_to_exactly", "optional_int32", "">>,
       <<"target_quality", "object", "Quality">>,
       <<"target_level", "optional_int32", "">>,
       <<"completion_message", "string", "">>,
       <<"level", "int32", "">>,
       <<"associated_quality", "object", "Quality">>,
       <<"id", "int32", "">> >>

(* class EventQRequirement: _layout, one <<name, method, class argument>> per line *)
EventQRequirement_layout ==
    << <<"min_level", "optional_int32", "">>,
       <<"max_level", "optional_int32", "">>,
       <<"min_advanced", "string", "">>,
       <<"max_advanced", "string", "">>,
       <<"associated_quality", "object", "Quality">>,
       <<"id", "int32", "">> >>

(* class Exchange: _layout, one <<name, method, class argument>> per line *)
Exchange_layout ==
    << <<"name", "string", "">>,
       <<"image", "string", "">>,
       <<"title", "string", "">>,
       <<"description", "string", "">>,
       <<"shops", "array", "Shop">>,
       <<"setting_ids", "array_int32", "">>,
       <<"id", "int32", "">> >>

(* class Persona: _layout, one <<name, method, class argument>> per line *)
Persona_layout ==
    << <<"qualities_affected", "array", "PersonaQEffect">>,
       <<"qualities_required", "array", "PersonaQRequirement">>,
       <<"description", "string", "">>,
       <<"owner_name", "string", "">>,
       <<"setting", "object", "Setting">>,
       <<"date_time_created", "datetime", "">>,
       <<"name", "string", "">>,
       <<"id", "int32", "">> >>

(* class PersonaQEffect: _layout, one <<name, method, class argument>> per line *)
PersonaQEffect_layout ==
    << <<"force_equip", "bool", "">>,
       <<"only_if_no_more_than_advanced", "string", "">>,
       <<"only_if_at_least", "optional_int32", "">>,
       <<"only_if_no_more_than", "optional_int32", "">>,
       <<"set_to_exactly_advanced", "string", "">>,
       <<"change_by_advanced", "string", "">>,
       <<"only_if_at_least_advanced", "string", "">>,
       <<"set_to_exactly", "optional_int32", "">>,
       <<"target_quality", "object", "Quality">>,
       <<"target_level", "optional_int32", "">>,
       <<"completion_message", "string", "">>,
       <<"level", "int32", "">>,
       <<"associated_quality", "object", "Quality">>,
       <<"id", "int32", "">> >>

(* class PersonaQRequirement: _layout, one <<name, method, class argument>> per line *)
PersonaQRequirement_layout ==
    << <<"min_level", "optional_int32", "">>,
       <<"max_level", "optional_int32", "">>,
       <<"min_advanced", "string", "">>,
       <<"max_advanced", "string", "">>,
       <<"associated_quality", "object", "Quality">>,
       <<"id", "int32", "">> >>

(* class Prospect: _layout, one <<name, method, class argument>> per line *)
Prospect_layout ==
    << <<"world", "object", "World">>,
       <<"tags", "string", "">>,
       <<"description", "string", "">>,
       <<"setting", "object", "Setting">>,
       <<"request", "object", "Quality">>,
       <<"demand", "int32", "">>,
       <<"payment", "string", "">>,
       <<"qualities_affected", "array", "ProspectQEffect">>,
       <<"qualities_required", "array", "ProspectQRequirement">>,
       <<"completions", "array", "Completion">>,
       <<"name", "string", "">>,
       <<"id", "int32", "">> >>

(* class ProspectQEffect: _layout, one <<name, method, class argument>> per line *)
ProspectQEffect_layout ==
    << <<"force_equip", "bool", "">>,
       <<"only_if_no_more_than_advanced", "string", "">>,
       <<"only_if_at_least", "optional_int32", "">>,
       <<"only_if_no_more_than", "optional_int32", "">>,
       <<"set_to_exactly_advanced", "string", "">>,
       <<"change_by_advanced", "string", "">>,
       <<"only_if_at_least_advanced", "string", "">>,
       <<"set_to_exactly", "optional_int32", "">>,
       <<"target_quality", "object", "Quality">>,
       <<"target_level", "optional_int32", "">>,
       <<"completion_message", "string", "">>,
       <<"level", "int32", "">>,
       <<"associated_quality", "object", "Quality">>,
       <<"id", "int32", "">> >>

(* class ProspectQRequirement: _layout, one <<name, method, class argument>> per line *)
ProspectQRequirement_layout ==
    << <<"prospect", "object", "Prospect">>,
       <<"custom_locked_message", "string", "">>,
       <<"custom_unlocked_message", "string", "">>,
       <<"min_level", "optional_int32", "">>,
       <<"max_level", "optional_int32", "">>,
       <<"min_advanced", "string", "">>,
       <<"max_advanced", "string", "">>,
       <<"associated_quality", "object", "Quality">>,
       <<"id", "int32", "">> >>

(* class Shop: _layout, one <<name, method, class argument>> per line *)
Shop_layout ==
    << <<"name", "string", "">>,
       <<"image", "string", "">>,
       <<"description", "string", "">>,
       <<"ordering", "int32", "">>,
       <<"exchange", "object", "Exchange">>,
       <<"availabilities", "array", "Availability">>,
       <<"qualities_required", "array", "ShopQRequirement">>,
       <<"id", "int32", "">> >>

(* class ShopQRequirement: _layout, one <<name, method, class argument>> per line *)
ShopQRequirement_layout ==
    << <<"min_level", "optional_int32", "">>,
       <<"max_level", "optional_int32", "">>,
       <<"min_advanced", "string", "">>,
       <<"max_advanced", "string", "">>,
       <<"associated_quality", "object", "Quality">>,
       <<"id", "int32", "">> >>

(* class Stub: _layout, one <<name, method, class argument>> per line *)
Stub_layout ==
    << <<"id", "bad_type", "">> >>

(* class QEnhancement: _layout, one <<name, method, class argument>> per line *)
QEnhancement_layout ==
    << <<"level", "int32", "">>,
       <<"associated_quality", "object", "Quality">>,
       <<"id", "int32", "">> >>

(* class Quality: _layout, one <<name, method, class argument>> per line *)
Quality_layout ==
    << <<"qualities_possessed", "array", "AspectQPossession">>,
       <<"relationship_capable", "bool", "">>,
       <<"plural_name", "string", "">>,
       <<"owner_name", "string", "">>,
       <<"description", "string", "">>,
       <<"image", "string", "">>,
       <<"notes", "string", "">>,
       <<"tag", "string", "">>,
       <<"cap", "optional_int32", "">>,
       <<"cap_advanced", "string", "">>,
       <<"himble_level", "int32", "">>,
       <<"use_pyramid_numbers", "bool", "">>,
       <<"pyramid_number_increase_limit", "int32", "">>,
       <<"available_at", "string", "">>,
       <<"prevent_naming", "bool", "">>,
       <<"css_classes", "string", "">>,
       <<"qeffect_priority", "int32", "">>,
       <<"qeffect_minimal_limit", "optional_int32", "">>,
       <<"world", "object", "World">>,
       <<"ordering", "int32", "">>,
       <<"is_slot", "bool", "">>,
       <<"limited_to_area", "object", "Area">>,
       <<"assign_to_slot", "object", "Quality">>,
       <<"parent_quality", "object", "Quality">>,
       <<"persistent", "bool", "">>,
       <<"visible", "bool", "">>,
       <<"enhancements", "array", "QEnhancement">>,
       <<"enhancements_description", "string", "">>,
       <<"second_chance_quality", "object", "Quality">>,
       <<"use_event", "object", "Event">>,
       <<"difficulty_test_type", "enum", "DifficultyTestType">>,
       <<"difficulty_scaler", "int32", "">>,
       <<"allowed_on", "enum", "QualityAllowedOn">>,
       <<"nature", "enum", "Nature">>,
       <<"category", "enum", "Category">>,
       <<"level_description_text", "string", "">>,
       <<"change_description_text", "string", "">>,
       <<"descending_change_description_text", "string", "">>,
       <<"level_image_text", "string", "">>,
       <<"variable_description_text", "string", "">>,
       <<"name", "string", "">>,
       <<"id", "int32", "">> >>

(* class Setting: _layout, one <<name, method, class argument>> per line *)
Setting_layout ==
    << <<"world", "object", "World">>,
       <<"owner_name", "string", "">>,
       <<"personae", "array", "Persona">>,
       <<"starting_area", "object", "Area">>,
       <<"starting_domicile", "object", "Domicile">>,
       <<"items_usable_here", "bool", "">>,
       <<"exchange", "object", "Exchange">>,
       <<"turn_length_seconds", "int32", "">>,
       <<"max_actions_allowed", "int32", "">>,
       <<"max_cards_allowed", "int32", "">>,
       <<"actions_in_period_before_exhaustion", "int32", "">>,
       <<"description", "string", "">>,
       <<"name", "string", "">>,
       <<"id", "int32", "">> >>

(* class User: _layout, one <<name, method, class argument>> per line *)
User_layout ==
    << <<"qualities_possessed", "array", "UserQPossession">>,
       <<"name", "string", "">>,
       <<"started_in_world", "object", "World">>,
       <<"email_address", "string", "">>,
       <<"facebook_email", "string", "">>,
       <<"password_hash", "string", "">>,
       <<"confirmation_code", "string", "">>,
       <<"twitter_id", "optional_int64", "">>,
       <<"facebook_id", "optional_int64", "">>,
       <<"google_id", "string", "">>,
       <<"google_auth_token", "string", "">>,
       <<"google_auth_token_secret", "string", "">>,
       <<"google_email", "string", "">>,
       <<"twitter_auth_token", "string", "">>,
       <<"twitter_auth_token_secret", "string", "">>,
       <<"facebook_auth_token", "string", "">>,
       <<"facebook_auth_token_secret", "string", "">>,
       <<"source", "string", "">>,
       <<"entered_via_content_id", "int32", "">>,
       <<"entered_via_character_id", "int32", "">>,
       <<"status", "enum", "UserStatus">>,
       <<"email_verified", "bool", "">>,
       <<"echo_via_network", "enum", "ViaNetwork">>,
       <<"message_via_network", "enum", "ViaNetwork">>,
       <<"message_about_nastiness", "bool", "">>,
       <<"message_about_niceness", "bool", "">>,
       <<"message_about_announcements", "bool", "">>,
       <<"story_event_message", "bool", "">>,
       <<"default_privilege_level", "enum", "PrivilegeLevel">>,
       <<"logged_in_via", "enum", "LoggedInVia">>,
       <<"is_broadcast_target", "bool", "">>,
       <<"mystery_prize_tracking", "int32", "">>,
       <<"recruited", "int32", "">>,
       <<"temp_id", "string", "">>,
       <<"created_at", "datetime", "">>,
       <<"last_logged_in_at", "optional_datetime", "">>,
       <<"last_active_at", "optional_datetime", "">>,
       <<"ip", "string", "">>,
       <<"last_access_code", "string", "">>,
       <<"world_privileges", "array", "UserWorldPrivilege">>,
       <<"sr_purchased_nex_in_lifetime", "int32", "">>,
       <<"fate_points_gained_through_game_in_lifetime", "int32", "">>,
       <<"nex", "int32", "">>,
       <<"id", "int32", "">> >>

(* class UserQPossession: _layout, one <<name, method, class argument>> per line *)
UserQPossession_layout ==
    << <<"xp", "int32", "">>,
       <<"effective_level_modifier", "int32", "">>,
       <<"target_quality", "object", "Quality">>,
       <<"target_level", "optional_int32", "">>,
       <<"completion_message", "string", "">>,
       <<"level", "int32", "">>,
       <<"associated_quality", "object", "Quality">>,
       <<"id", "int32", "">> >>

(* class UserWorldPrivilege: _layout, one <<name, method, class argument>> per line *)
UserWorldPrivilege_layout ==
    << <<"world", "object", "World">>,
       <<"privilege_level", "enum", "PrivilegeLevel">>,
       <<"user", "object", "User">>,
       <<"id", "int32", "">> >>

(* class World: _layout, one <<name, method, class argument>> per line *)
World_layout ==
    << <<"general_quality_catalogue", "bool", "">>,
       <<"show_card_titles", "bool", "">>,
       <<"character_creation_page_text", "string", "">>,
       <<"end_page_text", "string", "">>,
       <<"front_page_text", "string", "">>,
       <<"custom_css", "string", "">>,
       <<"credits", "string", "">>,
       <<"description", "string", "">>,
       <<"name", "string", "">>,
       <<"domain", "string", "">>,
       <<"promoted", "int32", "">>,
       <<"default_setting", "object", "Setting">>,
       <<"facebook_auth", "bool", "">>,
       <<"twitter_auth", "bool", "">>,
       <<"email_auth", "bool", "">>,
       <<"facebook_aPIKey", "string", "">>,
       <<"facebook_app_id", "string", "">>,
       <<"facebook_app_secret", "string", "">>,
       <<"game_user_twitter_auth_token", "string", "">>,
       <<"game_user_twitter_auth_token_secret", "string", "">>,
       <<"twitter_consumer_key", "string", "">>,
       <<"twitter_consumer_secret", "string", "">>,
       <<"twitter_callback_url", "string", "">>,
       <<"amazon_hosted_image_url", "string", "">>,
       <<"amazon_bucket_name", "string", "">>,
       <<"style_sheet", "string", "">>,
       <<"logo_image", "string", "">>,
       <<"default_starting_setting", "object", "Setting">>,
       <<"owner", "object", "User">>,
       <<"is_portal_world", "bool", "">>,
       <<"monetizes", "bool", "">>,
       <<"payment_email_address", "string", "">>,
       <<"support_email_address", "string", "">>,
       <<"system_from_email_address", "string", "">>,
       <<"last_updated", "datetime", "">>,
       <<"update_notes", "string", "">>,
       <<"publish_state", "enum", "PublishState">>,
       <<"genre", "enum", "Genre">>,
       <<"id", "int32", "">> >>

(* the record types declared in the module (subclasses of Object) *)
ObjectClasses ==
    {"Area", "AspectQPossession", "Availability", "Bargain", "BargainQRequirement", "Branch", "BranchQRequirement", "Completion", "CompletionQEffect", "CompletionQRequirement", "Deck", "Domicile", "Event", "EventQEffect", "EventQRequirement", "Exchange", "Persona", "PersonaQEffect", "PersonaQRequirement", "Prospect", "ProspectQEffect", "ProspectQRequirement", "Shop", "ShopQRequirement", "Stub", "QEnhancement", "Quality", "Setting", "User", "UserQPossession", "UserWorldPrivilege", "World"}

(* cls._layout after Object.__init_subclass__ has split it into fields *)
LayoutOf(cls) ==
    CASE cls = "Area" -> Area_layout
      [] cls = "AspectQPossession" -> AspectQPossession_layout
      [] cls = "Availability" -> Availability_layout
      [] cls = "Bargain" -> Bargain_layout
      [] cls = "BargainQRequirement" -> BargainQRequirement_layout
      [] cls = "Branch" -> Branch_layout
      [] cls = "BranchQRequirement" -> BranchQRequirement_layout
      [] cls = "Completion" -> Completion_layout
      [] cls = "CompletionQEffect" -> CompletionQEffect_layout
      [] cls = "CompletionQRequirement" -> CompletionQRequirement_layout
      [] cls = "Deck" -> Deck_layout
      [] cls = "Domicile" -> Domicile_layout
      [] cls = "Event" -> Event_layout
      [] cls = "EventQEffect" -> EventQEffect_layout
      [] cls = "EventQRequirement" -> EventQRequirement_layout
      [] cls = "Exchange" -> Exchange_layout
      [] cls = "Persona" -> Persona_layout
      [] cls = "PersonaQEffect" -> PersonaQEffect_layout
      [] cls = "PersonaQRequirement" -> PersonaQRequirement_layout
      [] cls = "Prospect" -> Prospect_layout
      [] cls = "ProspectQEffect" -> ProspectQEffect_layout
      [] cls = "ProspectQRequirement" -> ProspectQRequirement_layout
      [] cls = "Shop" -> Shop_layout
      [] cls = "ShopQRequirement" -> ShopQRequirement_layout
      [] cls = "Stub" -> Stub_layout
      [] cls = "QEnhancement" -> QEnhancement_layout
      [] cls = "Quality" -> Quality_layout
      [] cls = "Setting" -> Setting_layout
      [] cls = "User" -> User_layout
      [] cls = "UserQPossession" -> UserQPossession_layout
      [] cls = "UserWorldPrivilege" -> UserWorldPrivilege_layout
      [] cls = "World" -> World_layout

(* class Category(IntEnum): the declared member values *)
Category_members ==
    {0, 1, 101, 103, 104, 105, 106, 107, 150, 160, 170, 200,
     1000, 2000, 3000, 5000, 5001, 5002, 5003, 5004, 5025, 5050, 5100, 5200,
     5500, 6000, 6661, 6662, 7000, 8000, 9000, 10000, 11000, 12000, 13000, 13999,
     14000, 15000, 16000, 17000, 18000, 19000, 20000, 21000, 22000, 22500, 23000, 24000,
     25000, 26000, 27000, 28000, 29000, 30000, 31000, 32000, 33000, 34000, 35000, 36000,
     37000, 39000, 40000, 45000, 50000, 60000, 70000, 70001, 70002, 70003, 70004, 70005,
     70006, 70007, 70008, 70009, 70010}

(* class DifficultyTestType(IntEnum): the declared member values *)
DifficultyTestType_members ==
    {0, 1}

(* class EventCategory(IntEnum): the declared member values *)
EventCategory_members ==
    {0, 1, 2, 3, 4, 5, 6, 7, 8, 9, 10}

(* class Frequency(IntEnum): the declared member values *)
Frequency_members ==
    {0, 1, 10}

(* class Nature(IntEnum): the declared member values *)
Nature_members ==
    {0, 1, 2, 3}

(* class QualityAllowedOn(IntEnum): the declared member values *)
QualityAllowedOn_members ==
    {0, 1, 2, 3, 4, 5, 6}

(* class Urgency(IntEnum): the declared member values *)
Urgency_members ==
    {-1, 0, 3, 10}

(* the IntEnum subclasses defined in the module *)
EnumClasses ==
    {"Category", "DifficultyTestType", "EventCategory", "Frequency", "Nature", "QualityAllowedOn", "Urgency"}

(* the member values of a defined IntEnum subclass *)
MembersOf(cls) ==
    CASE cls = "Category" -> Category_members
      [] cls = "DifficultyTestType" -> DifficultyTestType_members
      [] cls = "EventCategory" -> EventCategory_members
      [] cls = "Frequency" -> Frequency_members
      [] cls = "Nature" -> Nature_members
      [] cls = "QualityAllowedOn" -> QualityAllowedOn_members
      [] cls = "Urgency" -> Urgency_members
(***************************************************************************)
(* The names the generated code can resolve: the classes of the module.    *)
(* A layout may name a class the module never defines; the generated       *)
(* expression then raises NameError when it looks the name up, which is    *)
(* before its argument (the read) is evaluated.                            *)
(***************************************************************************)
DefinedNames == ObjectClasses \cup EnumClasses

(* IntEnum's constructor: the member with that value, ValueError if none *)
enum_call(cls, v, p) ==
    IF v \in MembersOf(cls) THEN R([t |-> "enum", cls |-> cls, v |-> v], p, "none")
    ELSE R(None, p, "ValueError")

(* read_enum: cls_name(<int32>) *)
read_enum(cls, d, p) ==
    IF cls \notin DefinedNames THEN R(None, p, "NameError")
    ELSE LET i == read_int32(d, p)
         IN  enum_call(cls, i.val.v, i.pos)

(* read_optional_enum: <enum> if <byte> else None *)
read_optional_enum(cls, d, p) ==
    LET b == read_byte(d, p)
    IN  IF b.err # "none" THEN b
        ELSE IF b.val.v # 0 THEN read_enum(cls, d, b.pos)
        ELSE R(None, b.pos, "none")

(***************************************************************************)
(* Sequencing: when the expression that produced r raised, the exception   *)
(* leaves the enclosing expression too; otherwise evaluation goes on with  *)
(* its result. The outcome r is worked out once, as the only element of a  *)
(* set, before it is looked at.                                            *)
(***************************************************************************)
Then(r, Rest(_)) ==
    CHOOSE out \in {IF x.err # "none" THEN x ELSE Rest(x) : x \in {r}} : TRUE

RECURSIVE construct(_, _, _, _)
RECURSIVE init_fields(_, _, _, _, _, _)
RECURSIVE read_field(_, _, _, _, _)
RECURSIVE array_elems(_, _, _, _, _, _)

(* a variant that reads both flags before testing either *)
read_object_both(mem, cls, d, p) ==
    Then(read_byte(d, p), LAMBDA outer :
        Then(read_byte(d, outer.pos), LAMBDA inner :
            IF outer.val.v = 0 \/ inner.val.v = 0 THEN R(None, inner.pos, "none")
            ELSE construct(mem, cls, d, inner.pos)))

(* a variant that decodes the record when either flag is set *)
read_object_either(mem, cls, d, p) ==
    Then(read_byte(d, p), LAMBDA outer :
        Then(read_byte(d, outer.pos), LAMBDA inner :
            IF outer.val.v = 0 /\ inner.val.v = 0 THEN R(None, inner.pos, "none")
            ELSE construct(mem, cls, d, inner.pos)))

(***************************************************************************)
(* read_object: cls_name(read_fun, tell_fun) if <byte> and <byte> else     *)
(* None. `and` evaluates its right operand only when the left is truthy.   *)
(***************************************************************************)
read_object(mem, cls, d, p) ==
    Then(read_byte(d, p), LAMBDA outer :
        IF outer.val.v = 0 THEN R(None, outer.pos, "none")
        ELSE Then(read_byte(d, outer.pos), LAMBDA inner :
                IF inner.val.v = 0 THEN R(None, inner.pos, "none")
                ELSE construct(mem, cls, d, inner.pos)))

(* a variant that reads each flag and decodes the element whatever it says *)
RECURSIVE array_elems_unflagged(_, _, _, _, _, _)
array_elems_unflagged(mem, cls, d, p, n, acc) ==
    IF n <= 0 THEN R([t |-> "list", v |-> acc], p, "none")
    ELSE Then(read_byte(d, p), LAMBDA flag :
            Then(construct(mem, cls, d, flag.pos), LAMBDA e :
                array_elems_unflagged(mem, cls, d, e.pos, n - 1, Append(acc, e.val))))

(* a variant that counts a negative length up to 0 as it counts a         *)
(* positive one down                                                       *)
RECURSIVE array_elems_abs(_, _, _, _, _, _)
array_elems_abs(mem, cls, d, p, n, acc) ==
    IF n = 0 THEN R([t |-> "list", v |-> acc], p, "none")
    ELSE Then(read_byte(d, p), LAMBDA flag :
            IF flag.val.v = 0
            THEN array_elems_abs(mem, cls, d, flag.pos,
                                 (IF n < 0 THEN n + 1 ELSE n - 1), Append(acc, None))
            ELSE Then(construct(mem, cls, d, flag.pos), LAMBDA e :
                    array_elems_abs(mem, cls, d, e.pos,
                                    (IF n < 0 THEN n + 1 ELSE n - 1), Append(acc, e.val))))

(* a variant that ends the list at the first element that raises *)
RECURSIVE array_elems_prefix(_, _, _, _, _, _)
array_elems_prefix(mem, cls, d, p, n, acc) ==
    IF n <= 0 THEN R([t |-> "list", v |-> acc], p, "none")
    ELSE LET flag == read_byte(d, p)
         IN  IF flag.err # "none" THEN R([t |-> "list", v |-> acc], p, "none")
             ELSE IF flag.val.v = 0
             THEN array_elems_prefix(mem, cls, d, flag.pos, n - 1, Append(acc, None))
             ELSE LET e == construct(mem, cls, d, flag.pos)
                  IN  IF e.err # "none" THEN R([t |-> "list", v |-> acc], p, "none")
                      ELSE array_elems_prefix(mem, cls, d, e.pos, n - 1, Append(acc, e.val))

(***************************************************************************)
(* The list comprehension shared by the array readers:                     *)
(*   [clz(read_fun, tell_fun) if read_fun(1)[0] else None for x in range(n)]*)
(* range(n) is empty for n <= 0.                                           *)
(***************************************************************************)
array_elems(mem, cls, d, p, n, acc) ==
    IF n <= 0 THEN R([t |-> "list", v |-> acc], p, "none")
    ELSE Then(read_byte(d, p), LAMBDA flag :
            IF flag.val.v = 0
            THEN array_elems(mem, cls, d, flag.pos, n - 1, Append(acc, None))
            ELSE Then(construct(mem, cls, d, flag.pos), LAMBDA e :
                    array_elems(mem, cls, d, e.pos, n - 1, Append(acc, e.val))))

(* read_raw_array_real: a 4-byte signed length, then the comprehension *)
read_raw_array_real(mem, cls, d, p) ==
    LET r == read_fun(d, p, 4)
        alen == from_bytes_signed(r.bytes)
    IN  array_elems(mem, cls, d, r.pos, alen, <<>>)

(* a variant that reads the 4 length bytes before it tests the presence    *)
(* byte                                                                    *)
read_array_eager(mem, cls, d, p) ==
    LET b == read_byte(d, p)
    IN  IF b.err # "none" THEN b
        ELSE LET r == read_fun(d, b.pos, 4)
             IN  IF b.val.v = 0 THEN R(None, r.pos, "none")
                 ELSE IF r.bytes = <<0, 0, 0, 0>>
                 THEN R([t |-> "tuple", v |-> <<>>], r.pos, "none")
                 ELSE array_elems(mem, cls, d, r.pos, from_bytes_signed(r.bytes), <<>>)

(***************************************************************************)
(* read_array (the statements emitted when _DEBUG is off): None without    *)
(* the presence byte; the empty tuple when the 4 length bytes are all      *)
(* zero; otherwise the comprehension over the decoded length.              *)
(***************************************************************************)
read_array(mem, cls, d, p) ==
    LET b == read_byte(d, p)
    IN  IF b.err # "none" THEN b
        ELSE IF b.val.v = 0 THEN R(None, b.pos, "none")
        ELSE LET r == read_fun(d, b.pos, 4)
             IN  IF r.bytes = <<0, 0, 0, 0>>
                 THEN R([t |-> "tuple", v |-> <<>>], r.pos, "none")
                 ELSE array_elems(mem, cls, d, r.pos, from_bytes_signed(r.bytes), <<>>)

(***************************************************************************)
(* read_array_int32: None if not <byte> else [<int32> for x in             *)
(* range(<int32>)]; the count is read before the first element. An int32   *)
(* read never raises: once the stream is exhausted every further element   *)
(* is int.from_bytes(b'') = 0. The list is kept as the elements decoded    *)
(* while bytes remained (v) and the number of such zeros after them; a     *)
(* list of 2^28 or more entries is built only if the allocator grants it.  *)
(***************************************************************************)
RECURSIVE int32_elems(_, _, _, _, _)
int32_elems(mem, d, p, n, acc) ==
    IF n <= 0 THEN R([t |-> "list", v |-> acc, zeros |-> 0], p, "none")
    ELSE IF p >= Len(d)
         THEN IF n >= LimbBase /\ ~mem THEN R(None, p, "MemoryError")
              ELSE R([t |-> "list", v |-> acc, zeros |-> n], p, "none")
    ELSE LET i == read_int32(d, p)
         IN  int32_elems(mem, d, i.pos, n - 1, Append(acc, i.val))

read_array_int32(mem, d, p) ==
    LET b == read_byte(d, p)
    IN  IF b.err # "none" THEN b
        ELSE IF b.val.v = 0 THEN R(None, b.pos, "none")
        ELSE LET n == read_int32(d, b.pos)
             IN  int32_elems(mem, d, n.pos, n.val.v, <<>>)

(***************************************************************************)
(* generate_code, second loop: one statement per field of the layout, in   *)
(* layout order, each calling the reader its method name selects with the  *)
(* class argument when the layout gives one.                               *)
(***************************************************************************)
read_field(mem, method, cls, d, p) ==
    CASE method = "byte" -> read_byte(d, p)
      [] method = "bool" -> read_bool(d, p)
      [] method = "int32" -> read_int32(d, p)
      [] method = "optional_int32" -> read_optional_int32(d, p)
      [] method = "optional_int64" -> read_optional_int64(d, p)
      [] method = "float" -> read_float(d, p)
      [] method = "varint" -> read_varint(d, p)
      [] method = "string" -> read_string(mem, d, p)
      [] method = "datetime" -> read_datetime(d, p)
      [] method = "optional_datetime" -> read_optional_datetime(d, p)
      [] method = "enum" -> read_enum(cls, d, p)
      [] method = "optional_enum" -> read_optional_enum(cls, d, p)
      [] method = "object" -> read_object(mem, cls, d, p)
      [] method = "raw_array" -> read_raw_array_real(mem, cls, d, p)
      [] method = "array" -> read_array(mem, cls, d, p)
      [] method = "array_int32" -> read_array_int32(mem, d, p)
      [] method = "bad_type" -> read_bad_type(d, p)

(* a variant that leaves a field None when its statement raises and goes  *)
(* on with the next field                                                  *)
RECURSIVE init_fields_lenient(_, _, _, _, _, _)
init_fields_lenient(mem, cls, i, d, p, acc) ==
    IF i > Len(LayoutOf(cls))
    THEN R([t |-> "obj", cls |-> cls, f |-> acc], p, "none")
    ELSE LET r == read_field(mem, LayoutOf(cls)[i][2], LayoutOf(cls)[i][3], d, p)
         IN  IF r.err # "none"
             THEN init_fields_lenient(mem, cls, i + 1, d, r.pos, Append(acc, None))
             ELSE init_fields_lenient(mem, cls, i + 1, d, r.pos, Append(acc, r.val))

(* the statements for fields i.. of cls, acc holding the values assigned so far *)
init_fields(mem, cls, i, d, p, acc) ==
    IF i > Len(LayoutOf(cls))
    THEN R([t |-> "obj", cls |-> cls, f |-> acc], p, "none")
    ELSE Then(read_field(mem, LayoutOf(cls)[i][2], LayoutOf(cls)[i][3], d, p), LAMBDA r :
            init_fields(mem, cls, i + 1, d, r.pos, Append(acc, r.val)))

(* cls(read_fun, tell_fun): the generated __init__ reading from a stream *)
construct(mem, cls, d, p) == init_fields(mem, cls, 1, d, p, <<>>)

(***************************************************************************)
(* generate_code, first loop: the value a field gets when __init__ is      *)
(* called without a reader, chosen by what the field's type starts with.   *)
(***************************************************************************)
StartsWithObjectOrOptional ==
    {"object", "optional_int32", "optional_int64", "optional_enum", "optional_datetime"}
StartsWithString == {"string"}
StartsWithArray == {"array", "array_int32"}
StartsWithBool == {"bool"}

(* a variant that gives [] to the type 'array' only *)
default_value_exact(method) ==
    IF method \in StartsWithObjectOrOptional THEN None
    ELSE IF method \in StartsWithString THEN [t |-> "str", v |-> <<>>]
    ELSE IF method = "array" THEN [t |-> "list", v |-> <<>>]
    ELSE IF method \in StartsWithBool THEN BoolV(FALSE)
    ELSE IntV(0)

default_value(method) ==
    IF method \in StartsWithObjectOrOptional THEN None
    ELSE IF method \in StartsWithString THEN [t |-> "str", v |-> <<>>]
    ELSE IF method \in StartsWithArray THEN [t |-> "list", v |-> <<>>]
    ELSE IF method \in StartsWithBool THEN BoolV(FALSE)
    ELSE IntV(0)

FieldNames(cls) == {LayoutOf(cls)[i][1] : i \in 1..Len(LayoutOf(cls))}

(* cls(k=v, ...): every field gets its default, then setattr(self, k, v)   *)
(* for each keyword. __slots__ is assigned after the class exists, so      *)
(* instances keep a __dict__ and a keyword that is not a field becomes an  *)
(* attribute beside the fields (`extra`). Nothing is read: the cursor      *)
(* stays at p.                                                             *)
construct_default(cls, kwargs, p) ==
    LET f == [i \in 1..Len(LayoutOf(cls)) |->
                 IF LayoutOf(cls)[i][1] \in DOMAIN kwargs
                 THEN kwargs[LayoutOf(cls)[i][1]]
                 ELSE default_value(LayoutOf(cls)[i][2])]
        others == DOMAIN kwargs \ FieldNames(cls)
    IN  IF others = {}
        THEN R([t |-> "obj", cls |-> cls, f |-> f], p, "none")
        ELSE R([t |-> "obj", cls |-> cls, f |-> f,
                extra |-> [k \in others |-> kwargs[k]]], p, "none")

(***************************************************************************)
(* _Reader.__init__: open the file, peek at its start and skip the Unity   *)
(* header when the first bytes look like one. `st` is what peek returns:   *)
(* the content from byte 0. Yields the cursor decoding starts at.          *)
(***************************************************************************)
(* int.from_bytes(start[:4], 'little') < 20, without building the number *)
name_len_reasonable(st) ==
    /\ \A i \in 2..Min(4, Len(st)) : st[i] = 0
    /\ (Len(st) > 0 => st[1] < 20)

Slice(s, lo, hi) == SubSeq(s, lo + 1, Min(hi, Len(s)))

(* name_len, -name_len & 3 and blen, for a reasonable name_len *)
header_name_len(st) == IF Len(st) > 0 THEN st[1] ELSE 0
header_padding(st) == (4 - (header_name_len(st) % 4)) % 4
header_blen(st) == header_name_len(st) + 4 + header_padding(st)

(* the test that decides the file starts with a Unity header: a name       *)
(* length below 20, padding bytes that equal b'\0' * padding, and name     *)
(* bytes x with 0x40 < x <= 0x7A. A slice past the end of `st` is shorter  *)
(* than asked for, or empty.                                               *)
unity_header(st) ==
    /\ name_len_reasonable(st)
    /\ LET pad == Slice(st, header_name_len(st) + 4, header_blen(st))
           name == Slice(st, 4, header_name_len(st) + 4)
       IN  /\ pad = [i \in 1..header_padding(st) |-> 0]
           /\ \A i \in 1..Len(name) : 64 < name[i] /\ name[i] <= 122

(* a variant that skips the name block but not the content length *)
Reader_init_short(st) ==
    IF unity_header(st) THEN read_fun(st, 0, header_blen(st)).pos ELSE 0

Reader_init(st) ==
    IF unity_header(st) THEN read_fun(st, 0, header_blen(st) + 4).pos ELSE 0

(***************************************************************************)
(* _ALL_DATA_TYPES and _VALID_TYPES                                        *)
(***************************************************************************)
ALL_DATA_TYPES ==
    << <<"areas", "Area">>, <<"bargains", "Bargain">>, <<"events", "Event">>,
       <<"exchanges", "Exchange">>, <<"personas", "Persona">>,
       <<"prospects", "Prospect">>, <<"qualities", "Quality">>,
       <<"settings", "Setting">> >>

VALID_TYPES == [i \in 1..Len(ALL_DATA_TYPES) |-> ALL_DATA_TYPES[i][1]] \o <<"backers">>

(* list.index: the position of the first equal element (from 0) *)
IndexOf(seq, x) == (CHOOSE i \in 1..Len(seq) : seq[i] = x /\ \A j \in 1..(i-1) : seq[j] # x) - 1

InSeq(seq, x) == \E i \in 1..Len(seq) : seq[i] = x

(* bytes.split(b'\r\n'): the pieces between the separators, in order *)
RECURSIVE split_crlf(_, _, _, _)
split_crlf(bs, i, cur, acc) ==
    IF i > Len(bs) THEN Append(acc, cur)
    ELSE IF i < Len(bs) /\ bs[i] = 13 /\ bs[i+1] = 10
         THEN split_crlf(bs, i + 2, <<>>, Append(acc, cur))
         ELSE split_crlf(bs, i + 1, Append(cur, bs[i]), acc)

RECURSIVE decode_all(_, _, _)
decode_all(pieces, i, acc) ==
    IF i > Len(pieces) THEN [ok |-> TRUE, v |-> acc]
    ELSE LET s == utf8_decode(pieces[i], 1, <<>>)
         IN  IF s.ok THEN decode_all(pieces, i + 1, Append(acc, [t |-> "str", v |-> s.cps]))
             ELSE [ok |-> FALSE, v |-> acc]

(***************************************************************************)
(* _load_backers: everything after the header, split on CR LF, each piece  *)
(* decoded; the last piece is deleted when all its characters are NUL      *)
(* (which an empty piece satisfies).                                       *)
(***************************************************************************)
(* the with block: [x.decode() for x in reader.read_fun().split(b'\r\n')] *)
backers_body(d, p) ==
    LET rest == SubSeq(d, p + 1, Len(d))
        dec == decode_all(split_crlf(rest, 1, <<>>, <<>>), 1, <<>>)
    IN  IF dec.ok THEN R([t |-> "list", v |-> dec.v], Len(d), "none")
        ELSE R(None, Len(d), "UnicodeDecodeError")

(* a variant that deletes every trailing piece made of NULs only *)
RECURSIVE backers_trim_all(_)
backers_trim_all(backers) ==
    IF Len(backers) = 0 THEN backers
    ELSE LET last == backers[Len(backers)].v
         IN  IF \A i \in 1..Len(last) : last[i] = 0
             THEN backers_trim_all(SubSeq(backers, 1, Len(backers) - 1))
             ELSE backers

(* if all(x == '\0' for x in backers[-1]): del backers[-1] *)
backers_trim(backers) ==
    LET last == backers[Len(backers)].v
    IN  IF \A i \in 1..Len(last) : last[i] = 0
        THEN SubSeq(backers, 1, Len(backers) - 1)
        ELSE backers

load_backers(file) ==
    IF ~file.exists THEN R(None, 0, "FileNotFoundError")
    ELSE LET b == backers_body(file.bytes, Reader_init(file.bytes))
         IN  IF b.err # "none" THEN b
             ELSE R([t |-> "list", v |-> backers_trim(b.val.v)], b.pos, "none")

(***************************************************************************)
(* load_data(data_type, filename): ValueError for a name outside          *)
(* _VALID_TYPES; backers go to _load_backers; otherwise the class found    *)
(* through the name's index, a _Reader on the file (FileNotFoundError when *)
(* it is absent) and read_raw_array_real from where the reader stands.     *)
(***************************************************************************)
load_data(mem, data_type, file) ==
    IF ~InSeq(VALID_TYPES, data_type) THEN R(None, 0, "ValueError")
    ELSE IF data_type = "backers" THEN load_backers(file)
    ELSE LET cls == ALL_DATA_TYPES[IndexOf(VALID_TYPES, data_type) + 1][2]
         IN  IF ~file.exists THEN R(None, 0, "FileNotFoundError")
             ELSE read_raw_array_real(mem, cls, file.bytes, Reader_init(file.bytes))

(***************************************************************************)
(* load_all: the dict is built by calling load_data for each name of       *)
(* _VALID_TYPES in order; there is no handler around the calls, so the     *)
(* first exception leaves load_all and nothing is returned. `i` is the     *)
(* next position, `acc` the results so far.                                *)
(***************************************************************************)
RECURSIVE load_all_from(_, _, _, _)
RECURSIVE load_all_next(_, _, _, _, _)
load_all_from(mem, fs, i, acc) ==
    IF i > Len(VALID_TYPES)
    THEN [pc |-> "returned", result |-> acc, error |-> <<>>]
    ELSE load_all_next(mem, fs, i, acc, load_data(mem, VALID_TYPES[i], fs[VALID_TYPES[i]]))

load_all_next(mem, fs, i, acc, r) ==
    IF r.err # "none"
    THEN [pc |-> "raised", result |-> <<>>, error |-> <<VALID_TYPES[i], r.err>>]
    ELSE load_all_from(mem, fs, i + 1, Append(acc, <<VALID_TYPES[i], r.val>>))

load_all(mem, fs) == load_all_from(mem, fs, 1, <<>>)

(***************************************************************************)
(* The streams the decoders are run on.                                    *)
(***************************************************************************)
PrimBytes == {0, 42, 255}

(* every byte string over the alphabet, up to n bytes *)
RECURSIVE StringsUpTo(_, _)
StringsUpTo(alphabet, n) ==
    IF n = 0 THEN {<<>>}
    ELSE LET shorter == StringsUpTo(alphabet, n - 1)
         IN  shorter \cup {Append(s, b) : s \in {x \in shorter : Len(x) = n - 1}, b \in alphabet}

(* a 4-byte little-endian two's complement integer *)
Int4(n) ==
    <<n % 256, (n \div 256) % 256, (n \div 65536) % 256, (n \div 16777216) % 256>>

PrimStreams ==
    StringsUpTo(PrimBytes, MaxLen) \cup {<<1>> \o Int4(42), <<1>> \o Int4(-2)}

(* the base-128 encoding of an unbounded int: 7 bits a byte, low group     *)
(* first, the high bit set on every byte but the last                      *)
BigShr7(n) ==
    LET raw == [i \in 1..Len(n) |->
                   (n[i] \div 128) + (IF i < Len(n) THEN (n[i+1] % 128) * (2 ^ (LimbBits - 7)) ELSE 0)]
    IN  IF Len(raw) > 0 /\ raw[Len(raw)] = 0 THEN SubSeq(raw, 1, Len(raw) - 1) ELSE raw

RECURSIVE varint_encode(_)
varint_encode(n) ==
    IF BigIsSmall(n) /\ BigSmall(n) < 128 THEN <<BigSmall(n)>>
    ELSE <<(n[1] % 128) + 128>> \o varint_encode(BigShr7(n))

Big(n) == IF n = 0 THEN <<>> ELSE <<n>>

(* integers below 2^35, as limbs: the small ones, those around each byte   *)
(* boundary of the encoding, and the largest                               *)
VarintSamples ==
    {Big(n) : n \in 0..MaxSmall}
    \cup {Big(n) : n \in {127, 128, 300, 16383, 16384, 624485, 2097151, 2097152,
                          LimbBase - 1}}
    \cup {<<lo, hi>> : lo \in {0, 1, LimbBase - 1}, hi \in {1, 127}}

VarintStreams ==
    {varint_encode(n) \o tail : n \in VarintSamples, tail \in {<<>>, <<0>>, <<255>>}}
    \cup {[i \in 1..k |-> b] \o tail : k \in 1..MaxCont, b \in {128, 255},
                                       tail \in {<<>>, <<0>>}}
    \cup {<<229, 142, 38>>}

SmallInts == {Int4(0), Int4(42)}

(* the bytes of a QEnhancement whose associated_quality is absent *)
QBodies == {i1 \o q \o i2 : i1 \in SmallInts, q \in {<<0>>, <<1, 0>>}, i2 \in SmallInts}

FlagBytes == {0, 1, 2}

ObjectStreams ==
    {<<f1, f2>> \o b : f1 \in FlagBytes, f2 \in FlagBytes, b \in QBodies}
    \cup {<<f1, f2>> \o [i \in 1..k |-> 0] : f1 \in FlagBytes, f2 \in FlagBytes, k \in 0..MaxZeros}

(* the elements of an array: absent (flag 0) or a flagged QEnhancement *)
Elements ==
    {<<0>>, <<1>> \o Int4(42) \o <<0>> \o Int4(0), <<2>> \o Int4(0) \o <<1, 0>> \o Int4(42)}

RECURSIVE ElementRuns(_)
ElementRuns(n) ==
    IF n = 0 THEN {<<>>}
    ELSE LET shorter == ElementRuns(n - 1)
         IN  shorter \cup {s \o e : s \in shorter, e \in Elements}

ArrayStreams ==
    {Int4(n) \o es : n \in -1..MaxElems, es \in ElementRuns(MaxElems)}

(* the classes and enumerations the decode steps are tried with *)
FieldClasses == {"QEnhancement", "Stub", "User"}
FieldEnums == {"Frequency", "Urgency", "PublishState"}

(***************************************************************************)
(* The data directories load_data and load_all are run on: per dataset a   *)
(* file behind a Unity header, or no file.                                 *)
(***************************************************************************)
NoFile == [exists |-> FALSE, bytes |-> <<>>]
File(bs) == [exists |-> TRUE, bytes |-> bs]

(* name length 4, "Test", no padding, content length *)
Header == Int4(4) \o <<84, 101, 115, 116>> \o Int4(0)

GoodFile(n) ==
    IF n = "backers" THEN File(Header \o <<65, 13, 10, 66, 13, 10>>)
    ELSE File(Header \o Int4(2) \o <<0, 0>>)

(* a file cut short (an array of 1 with no element) or, for backers, text  *)
(* that is not UTF-8                                                       *)
CorruptFile(n) ==
    IF n = "backers" THEN File(Header \o <<255, 13, 10>>)
    ELSE File(Header \o Int4(1))

DatasetNames == {VALID_TYPES[i] : i \in 1..Len(VALID_TYPES)}

Directories ==
    UNION {{[n \in DatasetNames |-> IF n \in bad THEN kind[n] ELSE "good"] :
               kind \in [bad -> {"missing", "corrupt"}]} :
           bad \in {s \in SUBSET DatasetNames : Cardinality(s) <= MaxBad}}

FilesOf(fs) ==
    [n \in DatasetNames |->
        IF fs[n] = "good" THEN GoodFile(n)
        ELSE IF fs[n] = "missing" THEN NoFile ELSE CorruptFile(n)]

(* no generated __init__ is being stepped through *)
NoFrame == [cls |-> "", idx |-> 0, fields |-> <<>>, ends |-> <<>>]

InitRest ==
    /\ pos = 0
    /\ op = ""
    /\ arg = ""
    /\ start = 0
    /\ val = None
    /\ err = "none"
    /\ loaded = <<>>
    /\ loadErr = <<>>
    /\ loadPc = "idle"
    /\ source = "unopened"
    /\ frame = NoFrame

(* no data directory is in play while single streams are decoded *)
NoFiles == <<>>

Init == data \in PrimStreams /\ files = NoFiles /\ InitRest
InitVarint == data \in VarintStreams /\ files = NoFiles /\ InitRest
InitObject == data \in ObjectStreams /\ files = NoFiles /\ InitRest
InitArray == data \in ArrayStreams /\ files = NoFiles /\ InitRest
(* a presence byte, then an array: its length and a run of elements, or   *)
(* what remains of it when the stream ends early                           *)
(* negative array lengths: -1, -2, -256 and the least int32 *)
NegativeLens == {-1, -2, -256, -2147483647 - 1}

OptArrayStreams ==
    {<<f>> \o Int4(n) \o es :
        f \in {0, 2}, n \in -1..MaxElems, es \in ElementRuns(MaxElems)}
    \cup {<<f>> \o Zeros(k) : f \in FlagBytes, k \in 0..4}
    \cup {<<f>> \o Int4(n) \o tail :
            f \in FlagBytes, n \in NegativeLens, tail \in {<<>>, <<0>>, <<1>> \o Int4(42)}}

InitOptArray == data \in OptArrayStreams /\ files = NoFiles /\ InitRest
InitLoad == data = <<>> /\ files \in {FilesOf(fs) : fs \in Directories} /\ InitRest

(* a decode step ran from the cursor and produced r *)
Step(o, a, r) ==
    /\ op' = o
    /\ arg' = a
    /\ start' = pos
    /\ val' = r.val
    /\ pos' = r.pos
    /\ err' = r.err
    /\ UNCHANGED <<data, files, loaded, loadErr, loadPc, source, frame>>

(* a field statement runs only while no exception has left the decode *)
Running == err = "none" /\ loadPc = "idle" /\ frame = NoFrame

ReadByte == Running /\ Step("byte", "", read_byte(data, pos))
ReadBool == Running /\ Step("bool", "", read_bool(data, pos))
ReadInt32 == Running /\ Step("int32", "", read_int32(data, pos))
ReadOptionalInt32 == Running /\ Step("optional_int32", "", read_optional_int32(data, pos))
ReadOptionalInt64 == Running /\ Step("optional_int64", "", read_optional_int64(data, pos))
ReadFloat == Running /\ Step("float", "", read_float(data, pos))
ReadVarint == Running /\ Step("varint", "", read_varint(data, pos))
ReadString ==
    Running /\ \E mem \in BOOLEAN : Step("string", "", read_string(mem, data, pos))
ReadDatetime == Running /\ Step("datetime", "", read_datetime(data, pos))
ReadOptionalDatetime ==
    Running /\ Step("optional_datetime", "", read_optional_datetime(data, pos))
ReadBadType == Running /\ Step("bad_type", "", read_bad_type(data, pos))
ReadEnum == Running /\ \E c \in FieldEnums : Step("enum", c, read_enum(c, data, pos))
ReadOptionalEnum ==
    Running /\ \E c \in FieldEnums : Step("optional_enum", c, read_optional_enum(c, data, pos))
ReadObject ==
    Running /\ \E c \in FieldClasses, mem \in BOOLEAN :
                   Step("object", c, read_object(mem, c, data, pos))
ReadRawArray ==
    Running /\ \E c \in FieldClasses, mem \in BOOLEAN :
                   Step("raw_array", c, read_raw_array_real(mem, c, data, pos))
ReadArray ==
    Running /\ \E c \in FieldClasses, mem \in BOOLEAN :
                   Step("array", c, read_array(mem, c, data, pos))
ReadArrayInt32 ==
    Running /\ \E mem \in BOOLEAN : Step("array_int32", "", read_array_int32(mem, data, pos))

Next ==
    \/ ReadByte \/ ReadBool \/ ReadInt32 \/ ReadOptionalInt32 \/ ReadOptionalInt64
    \/ ReadFloat \/ ReadVarint \/ ReadString \/ ReadDatetime \/ ReadOptionalDatetime
    \/ ReadBadType \/ ReadEnum \/ ReadOptionalEnum \/ ReadObject \/ ReadRawArray
    \/ ReadArray \/ ReadArrayInt32

(***************************************************************************)
(* The loaders, each call one step. load_data leaves its stream, the       *)
(* cursor it stopped at and its result in the decoder's variables.         *)
(***************************************************************************)
(* the names load_data is called with: the datasets, and names that are   *)
(* not datasets (a class that has no file, wrong case, a file name, '')    *)
LoadNames == DatasetNames \cup {"users", "Areas", "areas.dat", ""}

Loaded(n, file, r) ==
    /\ data' = file.bytes
    /\ op' = "load_data"
    /\ arg' = n
    /\ start' = 0
    /\ val' = r.val
    /\ pos' = r.pos
    /\ err' = r.err
    /\ source' = IF InSeq(VALID_TYPES, n) /\ file.exists THEN "closed" ELSE source
    /\ UNCHANGED <<files, loaded, loadErr, loadPc, frame>>

FileOf(n) == IF n \in DatasetNames THEN files[n] ELSE NoFile

LoadData ==
    /\ loadPc = "idle"
    /\ op = ""
    /\ \E n \in LoadNames, mem \in BOOLEAN :
          Loaded(n, FileOf(n), load_data(mem, n, FileOf(n)))

LoadedAll(r) ==
    /\ loadPc' = r.pc
    /\ loaded' = r.result
    /\ loadErr' = r.error
    /\ source' = IF files[VALID_TYPES[1]].exists THEN "closed" ELSE source
    /\ UNCHANGED <<data, pos, op, arg, start, val, err, files, frame>>

LoadAll ==
    /\ loadPc = "idle"
    /\ \E mem \in BOOLEAN : LoadedAll(load_all(mem, files))

NextLoad == LoadData \/ LoadAll

(***************************************************************************)
(* The files a single load_data call is followed through: headers of       *)
(* every shape in front of a fixed body, the prefixes of a framed file,    *)
(* and array and text bodies behind the fixed header.                      *)
(***************************************************************************)
(* '@' 'A' 'Z' '[' '_' '`' 'a' 'z' '{' *)
NameBytes == {64, 65, 90, 91, 95, 96, 97, 122, 123}
NameLens == {0, 1, 3, 4, 5, 19, 20, 21}

(* names of n bytes: all 'T', or one of the first MaxSwap bytes replaced *)
Names(n) ==
    {[i \in 1..n |-> 84]}
    \cup {[i \in 1..n |-> IF i = k THEN b ELSE 84] : k \in 1..Min(n, MaxSwap), b \in NameBytes}

Pads(n) == {Zeros((4 - (n % 4)) % 4)} \cup {[i \in 1..((4 - (n % 4)) % 4) |-> 1]}

EmptyArray == Int4(0)

HeadersOf(n) ==
    {<<n, hi, 0, 0>> \o name \o pad \o Int4(0) \o EmptyArray :
        hi \in {0, 1}, name \in Names(n), pad \in Pads(n)}

HeaderFiles == UNION {HeadersOf(n) : n \in NameLens}

Prefixes(st) == {SubSeq(st, 1, k) : k \in 0..Len(st)}

CutFiles == UNION {Prefixes(h \o EmptyArray) : h \in {Header, Int4(3) \o <<84, 84, 84, 0>> \o Int4(0)}}

(* an Exchange with nothing optional present: four strings, shops and      *)
(* setting_ids absent, then the id                                         *)
ExchangeBytes(id) == Zeros(6) \o Int4(id)

(* array elements: absent, an Exchange, one whose name is not UTF-8, one   *)
(* whose shops hold a Shop whose name is not UTF-8, one that ends inside   *)
(* its record                                                              *)
LoadElements ==
    {<<0>>, <<1>> \o ExchangeBytes(7), <<1, 1, 1, 255>> \o Zeros(5) \o Int4(7),
     <<1>> \o Zeros(4) \o <<1>> \o Int4(1) \o <<1, 1, 1, 255>>, <<1, 0, 0>>}

RECURSIVE LoadRuns(_)
LoadRuns(n) ==
    IF n = 0 THEN {<<>>}
    ELSE LET shorter == LoadRuns(n - 1)
         IN  shorter \cup {r \o e : r \in shorter, e \in LoadElements}

ArrayBodies == {Int4(n) \o es : n \in 0..MaxLoad, es \in LoadRuns(MaxLoad)}

(* 'A', CR, LF, NUL; a two-byte character and a byte that is not UTF-8 *)
TextBytes == {65, 13, 10, 0}
TextBodies ==
    StringsUpTo(TextBytes, MaxText)
    \cup {<<195, 169, 13, 10>>, <<65, 13, 10, 255>>, <<255, 13, 10, 65>>}

SourceFiles ==
    {File(f) : f \in HeaderFiles \cup CutFiles}
    \cup {File(Header \o b) : b \in ArrayBodies \cup TextBodies}
    \cup {File(b) : b \in ArrayBodies \cup TextBodies}
    \cup {NoFile}

(* a directory whose files all hold the same content *)
InitSource ==
    /\ data = <<>>
    /\ files \in {[n \in DatasetNames |-> f] : f \in SourceFiles}
    /\ InitRest

(***************************************************************************)
(* load_data followed step by step. LoadOpen is the call up to and         *)
(* including _Reader(filename): the name is tested first, and an unknown   *)
(* name or an absent file raises with no file opened. LoadBody is the body *)
(* of the with statement. LoadExit leaves the with statement, which closes *)
(* the reader whether the body returned or raised, and ends the call (for  *)
(* backers after the trailing piece is looked at).                         *)
(***************************************************************************)
(* a variant that makes the reader before it tests the name *)
Opened_late(n, file) ==
    /\ arg' = n
    /\ start' = 0
    /\ val' = None
    /\ IF ~file.exists
       THEN op' = "load_exit" /\ err' = "FileNotFoundError" /\ UNCHANGED <<data, pos, source>>
       ELSE /\ data' = file.bytes
            /\ pos' = Reader_init(file.bytes)
            /\ IF ~InSeq(VALID_TYPES, n)
               THEN op' = "load_exit" /\ err' = "ValueError" /\ source' = "closed"
               ELSE op' = "load_open" /\ err' = "none" /\ source' = "open"
    /\ UNCHANGED <<files, loaded, loadErr, loadPc, frame>>

Opened(n, file) ==
    /\ arg' = n
    /\ start' = 0
    /\ val' = None
    /\ IF ~InSeq(VALID_TYPES, n)
       THEN op' = "load_exit" /\ err' = "ValueError" /\ UNCHANGED <<data, pos, source>>
       ELSE IF ~file.exists
       THEN op' = "load_exit" /\ err' = "FileNotFoundError" /\ UNCHANGED <<data, pos, source>>
       ELSE /\ op' = "load_open"
            /\ err' = "none"
            /\ data' = file.bytes
            /\ pos' = Reader_init(file.bytes)
            /\ source' = "open"
    /\ UNCHANGED <<files, loaded, loadErr, loadPc, frame>>

(* the file a call is given when it names one: a file of the directory     *)
GivenFile == files[VALID_TYPES[1]]

LoadOpen ==
    /\ loadPc = "idle"
    /\ op = ""
    /\ \E n \in LoadNames, explicit \in BOOLEAN :
          Opened(n, IF explicit THEN GivenFile ELSE FileOf(n))

(* a variant that takes the class one row further down the table *)
LoadClass_shifted(n) ==
    ALL_DATA_TYPES[((IndexOf(VALID_TYPES, n) + 1) % Len(ALL_DATA_TYPES)) + 1][2]

LoadClass(n) == ALL_DATA_TYPES[IndexOf(VALID_TYPES, n) + 1][2]

Bodied(r) ==
    /\ op' = "load_body"
    /\ start' = pos
    /\ val' = r.val
    /\ pos' = r.pos
    /\ err' = r.err
    /\ UNCHANGED <<data, arg, files, loaded, loadErr, loadPc, source, frame>>

LoadBody ==
    /\ op = "load_open"
    /\ \E mem \in BOOLEAN :
          Bodied(IF arg = "backers" THEN backers_body(data, pos)
                 ELSE read_raw_array_real(mem, LoadClass(arg), data, pos))

(* a variant that closes the reader only when the body returned *)
LoadExit_onreturn ==
    /\ op = "load_body"
    /\ op' = "load_exit"
    /\ source' = IF err = "none" THEN "closed" ELSE source
    /\ val' = IF arg = "backers" /\ err = "none"
              THEN [t |-> "list", v |-> backers_trim(val.v)]
              ELSE val
    /\ UNCHANGED <<data, pos, arg, start, err, files, loaded, loadErr, loadPc, frame>>

LoadExit ==
    /\ op = "load_body"
    /\ op' = "load_exit"
    /\ source' = "closed"
    /\ val' = IF arg = "backers" /\ err = "none"
              THEN [t |-> "list", v |-> backers_trim(val.v)]
              ELSE val
    /\ UNCHANGED <<data, pos, arg, start, err, files, loaded, loadErr, loadPc, frame>>

(* the directories a call is followed to its end in: array and text       *)
(* files, framed and bare, whole and cut short, or no file                 *)
LiveBodies ==
    {Int4(1) \o e : e \in LoadElements}
    \cup {Int4(2) \o <<0>> \o e : e \in LoadElements}
    \cup StringsUpTo(TextBytes, 3)
    \cup {<<65, 13, 10, 255>>}

LiveFiles ==
    {File(f) : f \in CutFiles}
    \cup {File(h \o b) : h \in {Header, <<>>}, b \in LiveBodies}
    \cup {NoFile}

InitSourceLive ==
    /\ data = <<>>
    /\ files \in {[n \in DatasetNames |-> f] : f \in LiveFiles}
    /\ InitRest

NextSource == LoadOpen \/ LoadBody \/ LoadExit

(***************************************************************************)
(* The streams a generated __init__ is followed through field by field:    *)
(* for a class, the bytes of a record with nothing optional present, that  *)
(* record with one field's bytes replaced by other ones, and its prefixes. *)
(***************************************************************************)
OneByteFields ==
    {"string", "object", "array", "array_int32", "bool", "byte",
     "optional_int32", "optional_int64", "optional_enum", "optional_datetime"}

(* the fewest bytes from which the field decodes *)
plain_bytes(method, cls) ==
    IF method \in OneByteFields THEN <<0>>
    ELSE IF method \in {"int32", "float"} THEN Int4(0)
    ELSE IF method = "enum" /\ cls \in EnumClasses
         THEN Int4(CHOOSE v \in MembersOf(cls) : \A w \in MembersOf(cls) : v <= w)
    ELSE IF method = "enum" THEN Int4(0)
    ELSE <<>>

(* other bytes for the field: both flags of an object set, a string of one *)
(* NUL, a present array, a true bool, the integer 42                       *)
other_bytes(method, cls) ==
    IF method \in {"object", "string", "array", "array_int32"} THEN <<1, 1>>
    ELSE IF method \in OneByteFields THEN <<1>>
    ELSE IF method \in {"int32", "float", "enum"} THEN Int4(42)
    ELSE <<>>

RECURSIVE record_bytes(_, _, _)
record_bytes(cls, i, k) ==
    IF i > Len(LayoutOf(cls)) THEN <<>>
    ELSE (IF i = k THEN other_bytes(LayoutOf(cls)[i][2], LayoutOf(cls)[i][3])
          ELSE plain_bytes(LayoutOf(cls)[i][2], LayoutOf(cls)[i][3]))
         \o record_bytes(cls, i + 1, k)

RecordStreams(cls) ==
    {record_bytes(cls, 1, k) \o tail : k \in 0..Len(LayoutOf(cls)), tail \in {<<>>, <<0>>}}
    \cup {SubSeq(record_bytes(cls, 1, 0), 1, n) : n \in 0..Min(MaxCut, Len(record_bytes(cls, 1, 0)))}

(* the classes stepped through: short and long layouts, one with an enum,  *)
(* one with a Stub field, Stub itself, two naming enums that no class      *)
(* statement of the module defines                                         *)
RecordClasses ==
    {"QEnhancement", "Exchange", "Deck", "Branch", "Stub", "UserWorldPrivilege", "World"}

InitRecord ==
    /\ data \in UNION {RecordStreams(c) : c \in RecordClasses}
    /\ files = NoFiles
    /\ InitRest

(* the keyword arguments default construction is tried with *)
KwargSets(cls) ==
    {<<>>, [k \in {LayoutOf(cls)[1][1]} |-> IntV(7)], [k \in {"no_such_field"} |-> IntV(7)]}

(***************************************************************************)
(* The generated __init__. DefaultConstruct is the branch taken without a  *)
(* reader. With a reader the statements run one per field in layout order: *)
(* BeginRecord enters __init__, DecodeField runs the statement of the next *)
(* field (an exception leaves __init__ there), EndRecord is the return     *)
(* after the last statement. frame.ends holds the cursor at entry and      *)
(* after each field assigned.                                              *)
(***************************************************************************)
DefaultConstruct ==
    /\ frame = NoFrame
    /\ op = ""
    /\ \E cls \in ObjectClasses : \E kwargs \in KwargSets(cls) :
          Step(IF kwargs = <<>> THEN "default" ELSE "default_kwargs", cls,
               construct_default(cls, kwargs, pos))

BeginRecord ==
    /\ frame = NoFrame
    /\ op = ""
    /\ \E cls \in RecordClasses :
          /\ frame' = [cls |-> cls, idx |-> 1, fields |-> <<>>, ends |-> <<pos>>]
          /\ op' = "init"
          /\ arg' = cls
    /\ start' = pos
    /\ UNCHANGED <<data, pos, val, err, files, loaded, loadErr, loadPc, source>>

FieldRead(r) ==
    /\ pos' = r.pos
    /\ err' = r.err
    /\ IF r.err # "none"
       THEN op' = "raised" /\ UNCHANGED frame
       ELSE /\ op' = "field"
            /\ frame' = [frame EXCEPT !.idx = @ + 1,
                                      !.fields = Append(@, r.val),
                                      !.ends = Append(@, r.pos)]
    /\ UNCHANGED <<data, arg, start, val, files, loaded, loadErr, loadPc, source>>

DecodeField ==
    /\ op \in {"init", "field"}
    /\ frame.idx <= Len(LayoutOf(frame.cls))
    /\ \E mem \in BOOLEAN :
          FieldRead(read_field(mem, LayoutOf(frame.cls)[frame.idx][2],
                               LayoutOf(frame.cls)[frame.idx][3], data, pos))

EndRecord ==
    /\ op \in {"init", "field"}
    /\ frame.idx > Len(LayoutOf(frame.cls))
    /\ op' = "init_done"
    /\ val' = [t |-> "obj", cls |-> frame.cls, f |-> frame.fields]
    /\ UNCHANGED <<data, pos, arg, start, err, files, loaded, loadErr, loadPc, source, frame>>

NextRecord == DefaultConstruct \/ BeginRecord \/ DecodeField \/ EndRecord

Spec == Init /\ [][Next]_vars
SpecVarint == InitVarint /\ [][Next]_vars
SpecObject == InitObject /\ [][Next]_vars
SpecArray == InitArray /\ [][Next]_vars
SpecOptArray == InitOptArray /\ [][Next]_vars
SpecLoad == InitLoad /\ [][NextLoad]_vars
SpecSource == InitSource /\ [][NextSource]_vars
SpecRecord == InitRecord /\ [][NextRecord]_vars

(* a call of load_data that has begun runs on to its exit: the interpreter *)
(* keeps executing it, nothing in it waits                                 *)
SpecSourceLive == InitSourceLive /\ [][NextSource]_vars /\ WF_vars(NextSource)

(***************************************************************************)
(* Properties.                                                             *)
(***************************************************************************)
(* bytes left under the cursor when the last step began *)
Remaining == Len(data) - start

(* the byte at offset k (from 1) after the cursor the last step began at *)
At(k) == data[start + k]

(* the little-endian signed value of the four bytes at offsets k..k+3 *)
Int32At(k) ==
    At(k) + 256 * At(k + 1) + 65536 * At(k + 2)
    + 16777216 * (IF At(k + 3) >= 128 THEN At(k + 3) - 256 ELSE At(k + 3))

(* C1: load_all isolates failures: whatever files are missing or corrupt,  *)
(* load_all returns, its result holds the decoded value of every dataset   *)
(* that loads on its own, and it names every dataset that does not.        *)
C1_LoadAllIsolatesFailures ==
    loadPc # "idle" =>
        /\ loadPc = "returned"
        /\ \A n \in DatasetNames :
              LET r == load_data(TRUE, n, files[n])
              IN  IF r.err = "none"
                  THEN \E i \in 1..Len(loaded) : loaded[i] = <<n, r.val>>
                  ELSE \E i \in 1..Len(loadErr) : loadErr[i] = <<n, r.err>>

C3_ObjectIffBothFlags ==
    (op = "object" /\ Remaining >= 2) =>
        /\ (err = "none" /\ val # None) => (At(1) # 0 /\ At(2) # 0)
        /\ (At(1) # 0 /\ At(2) # 0) =>
              \E mem \in BOOLEAN :
                  R(val, pos, err) = init_fields(mem, arg, 1, data, start + 2, <<>>)
        /\ (At(1) # 0 /\ At(2) = 0) => (err = "none" /\ val = None /\ pos = start + 2)
        /\ (At(1) = 0) => (err = "none" /\ val = None)
        /\ (arg = "QEnhancement" /\ start = 0
            /\ data = <<1, 1, 42, 0, 0, 0, 0, 0, 0, 0, 0>>) =>
              /\ val = [t |-> "obj", cls |-> "QEnhancement",
                        f |-> <<IntV(42), None, IntV(0)>>]
              /\ pos = 11

(* a QEnhancement was decoded behind two nonzero flags *)
C3_Witness ==
    /\ op = "object" /\ arg = "QEnhancement" /\ err = "none"
    /\ At(1) # 0 /\ At(2) # 0
    /\ val # None /\ val.t = "obj" /\ pos = start + 11

(* C4: a primitive decode that finds fewer bytes than it needs fails: it   *)
(* never returns a value built from a short read.                          *)
C4_ShortReadFails ==
    /\ (op \in {"byte", "bool"} /\ Remaining < 1) => err # "none"
    /\ (op \in {"int32", "float"} /\ Remaining < 4) => err # "none"
    /\ (op = "raw_array" /\ Remaining < 4) => err # "none"
    /\ (op = "varint" /\ \A i \in (start + 1)..Len(data) : data[i] >= 128) => err # "none"
    /\ (op = "string" /\ Remaining >= 2 /\ At(1) # 0 /\ At(2) < 128
        /\ Remaining - 2 < At(2)) => err # "none"

(* C5: an enum field of a defined enumeration never fails on its value:    *)
(* with its 4 bytes in the stream it consumes them and yields a value      *)
(* carrying the integer they encode, declared member or not.               *)
C5_EnumNeverFails ==
    (op = "enum" /\ arg \in EnumClasses /\ Remaining >= 4) =>
        /\ err = "none"
        /\ pos = start + 4
        /\ val.v = Int32At(1)

(* whether seq begins with pre at offset `from` *)
HasAt(seq, from, pre) ==
    Len(seq) >= from + Len(pre) /\ SubSeq(seq, from + 1, from + Len(pre)) = pre

(* C6: decoding the base-128 encoding of n returns n and consumes exactly  *)
(* the encoding, for the sampled n below 2^35; a varint that decodes ends  *)
(* at the first byte without the high bit; E5 8E 26 decodes to 624485.     *)
C6_VarintRoundTrip ==
    op = "varint" =>
        /\ \A n \in VarintSamples :
              HasAt(data, start, varint_encode(n)) =>
                  /\ err = "none"
                  /\ val = BigV(n)
                  /\ pos = start + Len(varint_encode(n))
        /\ err = "none" =>
              /\ pos > start /\ data[pos] < 128
              /\ \A i \in (start + 1)..(pos - 1) : data[i] >= 128
        /\ HasAt(data, start, <<229, 142, 38>>) =>
              val = BigV(<<624485>>) /\ pos = start + 3

(* the largest integer below 2^35 was decoded from its 5 bytes *)
C6_Witness ==
    /\ op = "varint" /\ err = "none" /\ start = 0
    /\ data = varint_encode(<<LimbBase - 1, 127>>)
    /\ val = BigV(<<LimbBase - 1, 127>>) /\ pos = 5

(* the bytes the encoding of an integer below 2^35 takes at most *)
VarintMaxBytes == 35 \div 7

(* C7: on a run of continuation bytes longer than any varint the decoder   *)
(* stops within the maximum and fails with MalformedVarint.                *)
C7_VarintBounded ==
    (/\ op = "varint"
     /\ Remaining > VarintMaxBytes
     /\ \A i \in (start + 1)..(start + VarintMaxBytes + 1) : data[i] >= 128) =>
        /\ err = "MalformedVarint"
        /\ pos - start <= VarintMaxBytes

(* C8: optional_int32 reads the presence byte first: zero gives None after *)
(* 1 byte; nonzero with 4 more bytes in the stream gives their             *)
(* little-endian signed value after 5; 01 2A 00 00 00 gives 42.            *)
C8_OptionalInt32 ==
    (op = "optional_int32" /\ Remaining >= 1) =>
        /\ At(1) = 0 => (err = "none" /\ val = None /\ pos = start + 1)
        /\ (At(1) # 0 /\ Remaining >= 5) =>
              (err = "none" /\ val = IntV(Int32At(2)) /\ pos = start + 5)
        /\ HasAt(data, start, <<1, 42, 0, 0, 0>>) => (val = IntV(42) /\ pos = start + 5)

(* 01 2A 00 00 00 was decoded to 42 *)
C8_Witness ==
    /\ op = "optional_int32" /\ start = 0 /\ data = <<1, 42, 0, 0, 0>>
    /\ err = "none" /\ val = IntV(42) /\ pos = 5

(* C9: optional_int64 with presence byte 0 is None after exactly 1 byte,   *)
(* without failure.                                                        *)
C9_OptionalInt64Absent ==
    (op = "optional_int64" /\ Remaining >= 1 /\ At(1) = 0) =>
        (err = "none" /\ val = None /\ pos = start + 1)

(* the entries a raw array of n elements has when its first flag is at p:  *)
(* None for a zero flag, else the record decoded right after the flag      *)
RECURSIVE EntriesFrom(_, _, _, _)
EntriesFrom(cls, p, n, acc) ==
    IF n = 0 THEN [ok |-> TRUE, v |-> acc, pos |-> p]
    ELSE IF p >= Len(data) THEN [ok |-> FALSE, v |-> acc, pos |-> p]
    ELSE IF data[p + 1] = 0 THEN EntriesFrom(cls, p + 1, n - 1, Append(acc, None))
    ELSE LET e == init_fields(TRUE, cls, 1, data, p + 1, <<>>)
         IN  IF e.err # "none" THEN [ok |-> FALSE, v |-> acc, pos |-> e.pos]
             ELSE EntriesFrom(cls, e.pos, n - 1, Append(acc, e.val))

(* C10: a raw array with its 4 length bytes N in the stream: N = 0 gives   *)
(* the empty list after exactly 4 bytes; N > 0 gives, when it decodes,     *)
(* exactly N entries in stream order, entry i None when its flag byte is   *)
(* zero and the decoded record when it is not, each record consuming its   *)
(* bytes.                                                                  *)
C10_RawArray ==
    (op = "raw_array" /\ Remaining >= 4) =>
        /\ Int32At(1) = 0 =>
              (err = "none" /\ val = [t |-> "list", v |-> <<>>] /\ pos = start + 4)
        /\ (Int32At(1) > 0 /\ err = "none") =>
              LET want == EntriesFrom(arg, start + 4, Int32At(1), <<>>)
              IN  /\ Len(val.v) = Int32At(1)
                  /\ want.ok
                  /\ val.v = want.v
                  /\ pos = want.pos
        /\ (Int32At(1) > 0 /\ EntriesFrom(arg, start + 4, Int32At(1), <<>>).ok) =>
              err = "none"

(* an array of two was decoded: an absent entry, then a QEnhancement *)
C10_Witness ==
    /\ op = "raw_array" /\ arg = "QEnhancement" /\ err = "none" /\ start = 0
    /\ Int32At(1) = 2
    /\ Len(val.v) = 2 /\ val.v[1] = None /\ val.v[2] # None
    /\ pos = 4 + 1 + 10

(* the first 4 bytes of the opened file give a name length below 20 *)
ShortNameLen == Len(data) >= 4 /\ data[1] < 20 /\ data[2] = 0 /\ data[3] = 0 /\ data[4] = 0

IsLetter(b) == (65 <= b /\ b <= 90) \/ (97 <= b /\ b <= 122)

C12_FramedOnlyLetters ==
    (/\ op = "load_open"
     /\ ShortNameLen
     /\ \E i \in 5..Min(4 + data[1], Len(data)) : ~IsLetter(data[i])) =>
        pos = 0

(* the field types the claim about defaults names, by the value it gives *)
NullByDefault ==
    {"object", "optional_int32", "optional_int64", "optional_enum", "optional_datetime"}
ZeroByDefault == {"int32", "float", "enum", "datetime", "bad_type"}

(* C13: default construction of any class, without keywords, reads nothing *)
(* and gives every field of the layout its zero value: None for object and *)
(* optional_* fields, '' for strings, an empty sequence for arrays, False  *)
(* for bools, 0 for the rest; every field of every layout is one of these. *)
C13_DefaultZero ==
    op = "default" =>
        /\ err = "none"
        /\ pos = start
        /\ val.t = "obj" /\ val.cls = arg
        /\ Len(val.f) = Len(LayoutOf(arg))
        /\ \A i \in 1..Len(LayoutOf(arg)) :
              LET m == LayoutOf(arg)[i][2]
              IN  /\ m \in NullByDefault \cup ZeroByDefault
                           \cup {"string", "array", "array_int32", "bool"}
                  /\ m \in NullByDefault => val.f[i] = None
                  /\ m = "string" => val.f[i] = [t |-> "str", v |-> <<>>]
                  /\ m \in {"array", "array_int32"} => val.f[i] = [t |-> "list", v |-> <<>>]
                  /\ m = "bool" => val.f[i] = BoolV(FALSE)
                  /\ m \in ZeroByDefault => val.f[i] = IntV(0)

(* an Exchange was default-constructed over a stream that holds bytes:     *)
(* strings '', shops and setting_ids empty, id 0, the cursor not moved     *)
C13_Witness ==
    /\ op = "default" /\ arg = "Exchange" /\ err = "none"
    /\ Len(data) > 0 /\ pos = 0
    /\ val.f[1] = [t |-> "str", v |-> <<>>]
    /\ val.f[5] = [t |-> "list", v |-> <<>>]
    /\ val.f[6] = [t |-> "list", v |-> <<>>]
    /\ val.f[7] = IntV(0)

(* field k of the class being decoded is an optional Stub whose two flag  *)
(* bytes, at the cursor the field starts from, are both nonzero            *)
StubFieldPresent(k) ==
    /\ LayoutOf(frame.cls)[k][2] = "object"
    /\ LayoutOf(frame.cls)[k][3] = "Stub"
    /\ Len(frame.ends) >= k
    /\ Len(data) >= frame.ends[k] + 2
    /\ data[frame.ends[k] + 1] # 0
    /\ data[frame.ends[k] + 2] # 0

(* C14: decoding a Stub from a stream raises ValueError ('Tried to parse   *)
(* unexpected type') wherever the cursor stands and whatever the bytes     *)
(* are, and no Stub is returned; an optional Stub field with both flags    *)
(* nonzero raises it too, and the record holding the field is then never   *)
(* completed.                                                              *)
C14_StubAlwaysFails ==
    /\ \A p \in 0..Len(data), mem \in BOOLEAN :
          /\ construct(mem, "Stub", data, p) = R(None, p, "ValueError")
          /\ (Len(data) >= p + 2 /\ data[p + 1] # 0 /\ data[p + 2] # 0) =>
                read_object(mem, "Stub", data, p) = R(None, p + 2, "ValueError")
    /\ frame.cls = "Stub" =>
          /\ frame.fields = <<>>
          /\ op # "init_done"
          /\ op = "raised" => err = "ValueError"
    /\ frame.cls # "" =>
          \A k \in 1..Len(LayoutOf(frame.cls)) :
              StubFieldPresent(k) =>
                  /\ Len(frame.fields) < k
                  /\ op # "init_done"
                  /\ (op = "raised" /\ frame.idx = k) => err = "ValueError"

(* the decode of a Branch reached its field act with both flags set and    *)
(* was left by the ValueError                                              *)
C14_Witness ==
    /\ frame.cls = "Branch" /\ op = "raised" /\ err = "ValueError"
    /\ frame.idx = 18 /\ StubFieldPresent(18)
    /\ val = None

(* C15: load_data with a name outside _VALID_TYPES raises ValueError with  *)
(* no file opened and no byte read, whether or not the file it was given   *)
(* exists; with a name of _VALID_TYPES the test of the name does not       *)
(* raise: the call goes on to open the file.                               *)
C15_UnknownDataset ==
    op \in {"load_open", "load_body", "load_exit"} =>
        /\ arg \notin DatasetNames =>
              /\ op = "load_exit"
              /\ err = "ValueError"
              /\ source = "unopened"
              /\ data = <<>> /\ pos = 0
        /\ (arg \in DatasetNames /\ source = "unopened") =>
              (op = "load_exit" /\ err = "FileNotFoundError")
        /\ (arg \in DatasetNames /\ files[arg].exists) => source # "unopened"

(* load_data was called with 'Areas' in a directory whose files exist, and *)
(* raised ValueError with nothing opened                                   *)
C15_Witness ==
    /\ op = "load_exit" /\ arg = "Areas" /\ err = "ValueError"
    /\ source = "unopened" /\ data = <<>>
    /\ files["areas"].exists /\ Len(files["areas"].bytes) > 0

(* the pieces joined with CR LF between them *)
RECURSIVE JoinCrLf(_)
JoinCrLf(pieces) ==
    IF Len(pieces) = 0 THEN <<>>
    ELSE IF Len(pieces) = 1 THEN pieces[1]
    ELSE pieces[1] \o <<13, 10>> \o JoinCrLf(Tail(pieces))

HasCrLf(bs) == \E i \in 1..(Len(bs) - 1) : bs[i] = 13 /\ bs[i + 1] = 10
AllNul(bs) == \A i \in 1..Len(bs) : bs[i] = 0

(* C16: load_data('backers') over ASCII content returns the pieces between *)
(* the CR LF pairs, in order and unaltered: no returned piece holds a      *)
(* CR LF, and either the pieces joined by CR LF are the content and the    *)
(* last is neither empty nor all NUL, or they are the content once one     *)
(* more piece, empty or all NUL, is put back at the end. A two-byte UTF-8  *)
(* character decodes to one character.                                     *)
C16_BackersSplit ==
    (op = "load_exit" /\ arg = "backers" /\ source = "closed") =>
        LET content == SubSeq(data, start + 1, Len(data))
        IN  /\ (\A i \in 1..Len(content) : content[i] < 128) =>
                  /\ err = "none"
                  /\ val.t = "list"
                  /\ \A i \in 1..Len(val.v) : val.v[i].t = "str" /\ ~HasCrLf(val.v[i].v)
                  /\ LET segs == [i \in 1..Len(val.v) |-> val.v[i].v]
                     IN  \/ /\ Len(segs) >= 1
                            /\ ~AllNul(segs[Len(segs)])
                            /\ JoinCrLf(segs) = content
                         \/ \E k \in 0..Len(content) :
                                JoinCrLf(Append(segs, Zeros(k))) = content
            /\ content = <<195, 169, 13, 10>> =>
                  (err = "none" /\ val.v = <<[t |-> "str", v |-> <<233>>]>>)

(* 'A' CR LF CR LF was loaded as ['A', '']: the empty last piece is        *)
(* dropped, the empty piece before it is kept                              *)
C16_Witness ==
    /\ op = "load_exit" /\ arg = "backers" /\ source = "closed" /\ err = "none"
    /\ SubSeq(data, start + 1, Len(data)) = <<65, 13, 10, 13, 10>>
    /\ val.v = <<[t |-> "str", v |-> <<65>>], [t |-> "str", v |-> <<>>]>>

(* C17: a file that load_data has opened is closed by the time the call   *)
(* has exited, whether it returned or raised, and every file opened is     *)
(* eventually closed.                                                      *)
C17_SourceClosed ==
    /\ [](op = "load_exit" => source # "open")
    /\ [](op = "load_body" => source = "open")
    /\ (source = "open") ~> (source = "closed")

(* a call left by the IndexError of a record cut short has closed its file *)
C17_Witness ==
    /\ op = "load_exit" /\ arg = "exchanges" /\ err = "IndexError"
    /\ source = "closed" /\ Len(data) > 0

(* what the decode in progress has done so far agrees with the layout:    *)
(* fields 1..idx-1 are assigned and no other, field i holds the value its  *)
(* statement gives when run from the cursor field i-1 left, where it also  *)
(* stopped                                                                 *)
FieldsInOrder ==
    /\ frame.idx = Len(frame.fields) + 1
    /\ Len(frame.ends) = Len(frame.fields) + 1
    /\ frame.idx <= Len(LayoutOf(frame.cls)) + 1
    /\ frame.ends[1] = start
    /\ \A i \in 1..Len(frame.fields) :
          /\ frame.ends[i] <= frame.ends[i + 1]
          /\ \E mem \in BOOLEAN :
                read_field(mem, LayoutOf(frame.cls)[i][2], LayoutOf(frame.cls)[i][3],
                           data, frame.ends[i])
                = R(frame.fields[i], frame.ends[i + 1], "none")
    /\ op \in {"init", "field", "init_done"} => pos = frame.ends[Len(frame.ends)]

(* C18: a record is decoded field by field in layout order: each field is  *)
(* read from where the one before it stopped, after all of it was decoded; *)
(* a step assigns the next field and leaves those assigned as they are;    *)
(* the record returned holds every field of the layout, is what the        *)
(* generated __init__ as a whole yields, and is returned only when no      *)
(* field raised.                                                           *)
C18_FieldsInLayoutOrder ==
    /\ [](frame.cls # "" =>
            /\ FieldsInOrder
            /\ op = "init_done" =>
                  /\ err = "none"
                  /\ val.f = frame.fields
                  /\ Len(val.f) = Len(LayoutOf(frame.cls))
                  /\ \E mem \in BOOLEAN :
                        construct(mem, frame.cls, data, start) = R(val, pos, "none")
            /\ op = "raised" =>
                  /\ val = None
                  /\ \E mem \in BOOLEAN :
                        construct(mem, frame.cls, data, start) = R(None, pos, err))
    /\ [][frame.cls # "" =>
            /\ frame'.cls = frame.cls
            /\ \/ frame' = frame
               \/ /\ frame'.idx = frame.idx + 1
                  /\ Len(frame'.fields) = Len(frame.fields) + 1
                  /\ SubSeq(frame'.fields, 1, Len(frame.fields)) = frame.fields
                  /\ SubSeq(frame'.ends, 1, Len(frame.ends)) = frame.ends]_vars

(* an Exchange was decoded: seven fields, the first six from one byte      *)
(* each, the id from the four after them                                   *)
C18_Witness ==
    /\ op = "init_done" /\ frame.cls = "Exchange" /\ err = "none"
    /\ Len(val.f) = 7
    /\ frame.ends = <<0, 1, 2, 3, 4, 5, 6, 10>>
    /\ pos = 10

(* C19: an array field is a presence byte in front of a raw array: with   *)
(* the byte 0 it is None after exactly 1 byte; with any other byte it      *)
(* raises or returns as read_raw_array_real does from the byte after it,   *)
(* with the same elements in the same order and the cursor at the same     *)
(* place.                                                                  *)
C19_ArrayIsFlaggedRawArray ==
    (op = "array" /\ Remaining >= 1) =>
        /\ At(1) = 0 => (err = "none" /\ val = None /\ pos = start + 1)
        /\ At(1) # 0 =>
              \E mem \in BOOLEAN :
                  LET raw == read_raw_array_real(mem, arg, data, start + 1)
                  IN  /\ err = raw.err
                      /\ pos = raw.pos
                      /\ err = "none" =>
                            /\ val.t \in {"list", "tuple"}
                            /\ val.v = raw.val.v

(* a present array of two was decoded: an absent entry and a QEnhancement  *)
C19_Witness ==
    /\ op = "array" /\ arg = "QEnhancement" /\ err = "none" /\ start = 0
    /\ Remaining >= 5 /\ At(1) # 0 /\ Int32At(2) = 2
    /\ val # None /\ Len(val.v) = 2 /\ val.v[1] = None /\ val.v[2] # None
    /\ pos = 1 + 4 + 1 + 10

(* C20: load_data returns nothing when anything in the file fails to      *)
(* decode: an exception raised by an element, or by a field nested in it,  *)
(* leaves the call with no value; a list is returned only when every one   *)
(* of the elements the length announces decoded, and then holds them all.  *)
C20_NoPartialLoad ==
    (op \in {"load_body", "load_exit"} /\ arg \in DatasetNames /\ source # "unopened") =>
        /\ err # "none" => val = None
        /\ (arg # "backers" /\ Remaining >= 4 /\ Int32At(1) > 0) =>
              LET want == EntriesFrom(LoadClass(arg), start + 4, Int32At(1), <<>>)
              IN  /\ ~want.ok => (err # "none" /\ val = None)
                  /\ err = "none" =>
                        /\ want.ok
                        /\ Len(val.v) = Int32At(1)
                        /\ val.v = want.v

(* an exchanges file announcing two elements, the first a whole Exchange   *)
(* and the second holding a Shop whose name is not UTF-8: the call was     *)
(* left by the UnicodeDecodeError and returned nothing                     *)
C20_Witness ==
    /\ op = "load_exit" /\ arg = "exchanges" /\ source = "closed"
    /\ Remaining >= 4 /\ Int32At(1) = 2
    /\ HasAt(data, start + 4, <<1>> \o ExchangeBytes(7) \o <<1>> \o Zeros(4) \o <<1>>)
    /\ EntriesFrom("Exchange", start + 4, 1, <<>>).ok
    /\ err = "UnicodeDecodeError" /\ val = None

(* the bytes of a record of the class being decoded with nothing optional *)
(* present begin at the cursor the decode started from                     *)
WellFormed == HasAt(data, start, record_bytes(frame.cls, 1, 0))

(* C21: every class a layout names is defined in the module: decoding a    *)
(* record from a well-formed stream is never left by a NameError.          *)
C21_TypesResolve ==
    (frame.cls # "" /\ WellFormed /\ op = "raised") => err # "NameError"

(* C22: with the 4 length bytes in the stream and a negative length, a raw *)
(* array, a present array and a present int32 array are each the empty     *)
(* list, with no failure and no element read: the cursor stands right      *)
(* after the length.                                                       *)
C22_NegativeLengthEmpty ==
    /\ (op = "raw_array" /\ Remaining >= 4 /\ Int32At(1) < 0) =>
          (err = "none" /\ val = [t |-> "list", v |-> <<>>] /\ pos = start + 4)
    /\ (op = "array" /\ Remaining >= 5 /\ At(1) # 0 /\ Int32At(2) < 0) =>
          (err = "none" /\ val = [t |-> "list", v |-> <<>>] /\ pos = start + 5)
    /\ (op = "array_int32" /\ Remaining >= 5 /\ At(1) # 0 /\ Int32At(2) < 0) =>
          (err = "none" /\ val = [t |-> "list", v |-> <<>>, zeros |-> 0]
           /\ pos = start + 5)

(* a raw array of length -2^31 was read as [] with an element's bytes      *)
(* still in the stream behind it                                           *)
C22_Witness ==
    /\ op = "raw_array" /\ err = "none" /\ start = 1
    /\ Remaining >= 4 /\ Int32At(1) < -256
    /\ val = [t |-> "list", v |-> <<>>]
    /\ pos = 5 /\ Len(data) = 10

(* the record class the catalog pairs with each dataset *)
CatalogClass ==
    [n \in DatasetNames \ {"backers"} |->
        CASE n = "areas" -> "Area"
          [] n = "bargains" -> "Bargain"
          [] n = "events" -> "Event"
          [] n = "exchanges" -> "Exchange"
          [] n = "personas" -> "Persona"
          [] n = "prospects" -> "Prospect"
          [] n = "qualities" -> "Quality"
          [] n = "settings" -> "Setting"]

(* C23: for a dataset other than backers, the class found through the      *)
(* position of its name in _VALID_TYPES is the one _ALL_DATA_TYPES pairs   *)
(* with the name, and the file is decoded as an array of that class;       *)
(* backers, whose position is past the end of _ALL_DATA_TYPES, is decoded  *)
(* as text and never looked up.                                            *)
C23_CatalogLookup ==
    (op \in {"load_open", "load_body"} /\ arg \in DatasetNames) =>
        /\ arg # "backers" =>
              /\ LoadClass(arg) = CatalogClass[arg]
              /\ \E i \in 1..Len(ALL_DATA_TYPES) :
                    ALL_DATA_TYPES[i] = <<arg, LoadClass(arg)>>
              /\ op = "load_body" =>
                    \E mem \in BOOLEAN :
                        R(val, pos, err)
                        = read_raw_array_real(mem, CatalogClass[arg], data, start)
        /\ arg = "backers" =>
              /\ IndexOf(VALID_TYPES, arg) + 1 > Len(ALL_DATA_TYPES)
              /\ op = "load_body" => R(val, pos, err) = backers_body(data, start)

(* the settings file, one absent element behind the header, was decoded as *)
(* an array of Setting                                                     *)
C23_Witness ==
    /\ op = "load_body" /\ arg = "settings" /\ err = "none"
    /\ LoadClass(arg) = "Setting"
    /\ start = 12 /\ data = Header \o Int4(1) \o <<0>>
    /\ val = [t |-> "list", v |-> <<None>>]

====
